---- MODULE Spec2Model ----
(***************************************************************************)
(* Model of the datarails-open ingestion core: the CSV loader              *)
(* (app/loader.py), the Excel loader (app/excel_loader.py), the fact store *)
(* (app/database.py) and the scenario export of the bridge                 *)
(* (app/office_bridge.py).                                                 *)
(*                                                                         *)
(* A Python str is a sequence of one-character strings, so that strip(),   *)
(* lower(), replace() and float() are computed character by character.     *)
(* Python's None is the distinguished value None below, which is no text.  *)
(* A float is an integer: the value cells of the model hold no '.', 'e',   *)
(* '_' or letters that float() would read as part of a number.             *)
(***************************************************************************)
EXTENDS Integers, Sequences, FiniteSets, TLC

VARIABLES financial_facts, file, result, args,
          ai_insights, schema_migrations, connections,
          environ, bridge_api_secret, bridge_api_key

vars == <<financial_facts, file, result, args,
          ai_insights, schema_migrations, connections,
          environ, bridge_api_secret, bridge_api_key>>

\* the state of the bridge next to financial_facts: the table of generated
\* insights, the table of applied migrations, the open connections, the
\* environment of the server and the two secret files
bridge_vars == <<ai_insights, schema_migrations, connections,
                 environ, bridge_api_secret, bridge_api_key>>

(***************************************************************************)
(* Bounds of the model.                                                    *)
(***************************************************************************)
MaxDataRows == 2
MaxFacts == 3
MaxRules == 2
MaxInsights == 2
MaxConnections == 2

(***************************************************************************)
(* Python values.                                                          *)
(***************************************************************************)
None == <<"None">>

Min(a, b) == IF a < b THEN a ELSE b

Range(s) == {s[i] : i \in 1..Len(s)}

UpperChars == <<"A","B","C","D","E","F","G","H","I","J","K","L","M",
                "N","O","P","Q","R","S","T","U","V","W","X","Y","Z">>

LowerChars == <<"a","b","c","d","e","f","g","h","i","j","k","l","m",
                "n","o","p","q","r","s","t","u","v","w","x","y","z">>

Digits == <<"0","1","2","3","4","5","6","7","8","9">>

Whitespace == {" ", "\t", "\n", "\r"}

\* str.lower() on one character
LowerChar(c) ==
    IF \E i \in 1..26 : UpperChars[i] = c
    THEN LowerChars[CHOOSE i \in 1..26 : UpperChars[i] = c]
    ELSE c

\* str.lower()
Lower(s) == [i \in 1..Len(s) |-> LowerChar(s[i])]

\* str.strip(): drop the leading and the trailing whitespace
Strip(s) ==
    LET keep == {i \in 1..Len(s) : s[i] \notin Whitespace}
    IN  IF keep = {} THEN <<>>
        ELSE LET lo == CHOOSE i \in keep : \A j \in keep : i <= j
                 hi == CHOOSE i \in keep : \A j \in keep : j <= i
             IN  SubSeq(s, lo, hi)

KeepCommas(s) == s

\* str.replace(",", "")
RemoveCommas(s) == SelectSeq(s, LAMBDA c : c # ",")

\* the code point order of the characters the model uses
CharOrder == <<"\t", "\n", "\r", " ", "+", ",", "-", ".">> \o Digits \o UpperChars \o LowerChars

Ord(c) == CHOOSE i \in 1..Len(CharOrder) : CharOrder[i] = c

\* s < t for two str, as sorted() compares them
RECURSIVE StrLess(_, _)
StrLess(s, t) ==
    IF t = <<>> THEN FALSE
    ELSE IF s = <<>> THEN TRUE
    ELSE IF s[1] = t[1] THEN StrLess(Tail(s), Tail(t))
    ELSE Ord(s[1]) < Ord(t[1])

\* sorted(S) of a set of str
RECURSIVE Sorted(_)
Sorted(S) ==
    IF S = {} THEN <<>>
    ELSE LET m == CHOOSE x \in S : \A y \in S \ {x} : StrLess(x, y)
         IN  <<m>> \o Sorted(S \ {m})

\* the value of a non-empty string of decimal digits
DigitValue(c) == (CHOOSE i \in 1..10 : Digits[i] = c) - 1

RECURSIVE DigitsValue(_)
DigitsValue(s) ==
    IF s = <<>> THEN 0
    ELSE 10 * DigitsValue(SubSeq(s, 1, Len(s) - 1)) + DigitValue(s[Len(s)])

IsDigits(s) == s # <<>> /\ \A i \in 1..Len(s) : s[i] \in Range(Digits)

\* float(s): [ok |-> the text is a number, value |-> the number]
ParseFloat(s) ==
    LET t == Strip(s)
        signed == t # <<>> /\ t[1] \in {"+", "-"}
        body == IF signed THEN Tail(t) ELSE t
    IN  IF IsDigits(body)
        THEN [ok |-> TRUE,
              value |-> IF signed /\ t[1] = "-" THEN 0 - DigitsValue(body) ELSE DigitsValue(body)]
        ELSE [ok |-> FALSE, value |-> 0]

(***************************************************************************)
(* Column names and literals of the code.                                  *)
(***************************************************************************)
s_period == <<"p","e","r","i","o","d">>
s_department == <<"d","e","p","a","r","t","m","e","n","t">>
s_account == <<"a","c","c","o","u","n","t">>
s_value == <<"v","a","l","u","e">>
s_currency == <<"c","u","r","r","e","n","c","y">>
s_metadata == <<"m","e","t","a","d","a","t","a">>
s_USD == <<"U","S","D">>
s_csv == <<".","c","s","v">>
s_xlsx == <<".","x","l","s","x">>

REQUIRED_COLUMNS == <<s_period, s_department, s_account, s_value>>

(***************************************************************************)
(* A Python dict: the sequence of its <<key, value>> items in insertion    *)
(* order. Assigning to a key that is present keeps the key's position.     *)
(***************************************************************************)
DictHas(d, k) == \E i \in 1..Len(d) : d[i][1] = k

DictGet(d, k) == d[CHOOSE i \in 1..Len(d) : d[i][1] = k][2]

DictSet(d, k, v) ==
    IF DictHas(d, k)
    THEN [i \in 1..Len(d) |-> IF d[i][1] = k THEN <<k, v>> ELSE d[i]]
    ELSE Append(d, <<k, v>>)

\* dict(pairs), and a dict comprehension over pairs
RECURSIVE DictFromPairs(_)
DictFromPairs(pairs) ==
    IF pairs = <<>> THEN <<>>
    ELSE LET n == Len(pairs)
         IN  DictSet(DictFromPairs(SubSeq(pairs, 1, n - 1)), pairs[n][1], pairs[n][2])

\* the truth value of a key or a cell that is None or a str
Truthy(x) == x # None /\ x # <<>>

(***************************************************************************)
(* What a call returns or raises: exc = "" for a normal return.            *)
(***************************************************************************)
Returned(rows, opened) ==
    [exc |-> "", msg |-> "", rows |-> rows, missing |-> <<>>, opened |-> opened]

Raised(exc, msg, missing, opened) ==
    [exc |-> exc, msg |-> msg, rows |-> <<>>, missing |-> missing, opened |-> opened]

(***************************************************************************)
(* loader._normalise_row                                                   *)
(***************************************************************************)
\* row.get(k)
DictGetOrNone(row, k) == IF DictHas(row, k) THEN DictGet(row, k) ELSE None

OrDefaultUntrimmed(cell, default) == IF Truthy(cell) THEN cell ELSE default

\* (cell or default).strip()
OrDefault(cell, default) == Strip(IF Truthy(cell) THEN cell ELSE default)

_normalise_row(row) ==
    LET keys == REQUIRED_COLUMNS
        \* the first of row["period"].strip() .. row["value"].replace() that fails
        failing == {i \in 1..4 : ~DictHas(row, keys[i]) \/ DictGet(row, keys[i]) = None}
        first == CHOOSE i \in failing : \A j \in failing : i <= j
        raw_value == Strip(RemoveCommas(DictGet(row, s_value)))
        value == ParseFloat(raw_value)
        currency == OrDefault(DictGetOrNone(row, s_currency), s_USD)
        metadata == OrDefault(DictGetOrNone(row, s_metadata), <<>>)
    IN  IF failing # {}
        THEN IF ~DictHas(row, keys[first])
             THEN Raised("ValueError", "Missing column", <<keys[first]>>, TRUE)
             ELSE Raised("AttributeError", "'NoneType' object has no attribute", <<>>, TRUE)
        ELSE IF ~value.ok
        THEN Raised("ValueError", "could not convert string to float", <<>>, TRUE)
        ELSE Returned(<<[period |-> Strip(DictGet(row, s_period)),
                         department |-> Strip(DictGet(row, s_department)),
                         account |-> Strip(DictGet(row, s_account)),
                         value |-> value.value,
                         currency |-> currency,
                         metadata |-> metadata]>>, TRUE)

\* the rows of a loop that appends _normalise_row(d) for each d, in order:
\* the first exception ends the loop
NormaliseEach(dicts) ==
    LET rs == [i \in 1..Len(dicts) |-> _normalise_row(dicts[i])]
        bad == {i \in 1..Len(dicts) : rs[i].exc # ""}
    IN  IF bad = {}
        THEN Returned([i \in 1..Len(dicts) |-> rs[i].rows[1]], TRUE)
        ELSE rs[CHOOSE i \in bad : \A j \in bad : i <= j]

(***************************************************************************)
(* pathlib.Path: a path is [name, exists]; csv.reader and csv.DictReader.  *)
(***************************************************************************)
\* Path.suffix: the text from the last '.', unless the name starts or ends there
Suffix(name) ==
    LET dots == {i \in 1..Len(name) : name[i] = "."}
        last == CHOOSE i \in dots : \A j \in dots : j <= i
    IN  IF dots = {} THEN <<>>
        ELSE IF last = 1 \/ last = Len(name) THEN <<>>
        ELSE SubSeq(name, last, Len(name))

SuffixCaseSensitive(path) == Suffix(path.name)

\* path.suffix.lower()
SuffixLower(path) == Lower(Suffix(path.name))

\* csv.DictReader.__next__ for one non-blank record
DictReaderRow(fieldnames, row) ==
    LET lf == Len(fieldnames)
        lr == Len(row)
        zipped == [i \in 1..Min(lf, lr) |-> <<fieldnames[i], row[i]>>]
        rest == IF lf < lr THEN <<<<None, SubSeq(row, lf + 1, lr)>>>>
                ELSE [i \in 1..(lf - lr) |-> <<fieldnames[lr + i], None>>]
    IN  DictFromPairs(zipped \o rest)

(***************************************************************************)
(* loader.read_dataset: records are the rows csv.reader yields, a blank    *)
(* line being the empty record <<>>.                                       *)
(***************************************************************************)
read_dataset(path, records) ==
    IF ~path.exists
    THEN Raised("FileNotFoundError", "", <<>>, FALSE)
    ELSE IF SuffixLower(path) \notin {s_csv}
    THEN Raised("ValueError", "Only CSV files are supported in the open MVP", <<>>, FALSE)
    ELSE
    LET fieldnames == IF records = <<>> THEN <<>> ELSE records[1]
        headers == [i \in 1..Len(fieldnames) |-> Lower(Strip(fieldnames[i]))]
        missing == Range(REQUIRED_COLUMNS) \ Range(headers)
        data == SelectSeq(Tail(records), LAMBDA r : r # <<>>)
        raws == [i \in 1..Len(data) |-> DictReaderRow(fieldnames, data[i])]
        lowered(raw) ==
            LET items == SelectSeq(raw, LAMBDA kv : Truthy(kv[1]))
            IN  DictFromPairs([i \in 1..Len(items) |-> <<Lower(Strip(items[i][1])), items[i][2]>>])
    IN  IF headers = <<>>
        THEN Returned(<<>>, TRUE)
        ELSE IF missing # {}
        THEN Raised("ValueError", "Missing required columns", Sorted(missing), TRUE)
        ELSE NormaliseEach([i \in 1..Len(raws) |-> lowered(raws[i])])

(***************************************************************************)
(* excel_loader: a worksheet is the rectangle of cells that                *)
(* iter_rows(values_only=True) yields, a cell being None or a text; a      *)
(* workbook is [sheetnames, rows (by sheet name), tables], a table being   *)
(* [name, sheet, min_row, max_row, min_col, max_col]. Sheet and table      *)
(* names are opaque: they are TLA+ strings.                                *)
(***************************************************************************)
BlankCell(cell) == cell = None \/ cell = <<>>

_normalised_rows_from_iterable(header_row, data_rows) ==
    LET headers == [i \in 1..Len(header_row) |->
                       IF header_row[i] # None THEN Lower(Strip(header_row[i])) ELSE <<>>]
        missing == Range(REQUIRED_COLUMNS) \ {h \in Range(headers) : h # <<>>}
        data == SelectSeq(data_rows, LAMBDA row : \E i \in 1..Len(row) : ~BlankCell(row[i]))
        as_dict(row) ==
            LET pairs == [i \in 1..Min(Len(headers), Len(row)) |->
                             <<headers[i], IF row[i] = None THEN <<>> ELSE row[i]>>]
            IN  DictFromPairs(SelectSeq(pairs, LAMBDA kv : kv[1] # <<>>))
    IN  IF \A i \in 1..Len(headers) : headers[i] = <<>>
        THEN Returned(<<>>, TRUE)
        ELSE IF missing # {}
        THEN Raised("ValueError", "Missing required columns", Sorted(missing), TRUE)
        ELSE NormaliseEach([i \in 1..Len(data) |-> as_dict(data[i])])

_rows_from_sheet(rows) ==
    LET found == {i \in 1..Len(rows) :
                     rows[i] # <<>> /\ \E j \in 1..Len(rows[i]) : ~BlankCell(rows[i][j])}
        h == CHOOSE i \in found : \A j \in found : i <= j
    IN  IF found = {}
        THEN Returned(<<>>, TRUE)
        ELSE _normalised_rows_from_iterable(rows[h], SubSeq(rows, h + 1, Len(rows)))

\* the rows from min_row to the last row of the sheet
IterRowsToEnd(rows, min_row, max_row, min_col, max_col) ==
    [r \in 1..(Len(rows) - min_row + 1) |->
        [c \in 1..(max_col - min_col + 1) |->
            IF min_col + c - 1 <= Len(rows[min_row + r - 1])
            THEN rows[min_row + r - 1][min_col + c - 1]
            ELSE None]]

\* sheet.iter_rows(min_row, max_row, min_col, max_col): cells outside the
\* sheet's rectangle are None
IterRows(rows, min_row, max_row, min_col, max_col) ==
    [r \in 1..(max_row - min_row + 1) |->
        [c \in 1..(max_col - min_col + 1) |->
            IF min_row + r - 1 <= Len(rows) /\ min_col + c - 1 <= Len(rows[min_row + r - 1])
            THEN rows[min_row + r - 1][min_col + c - 1]
            ELSE None]]

_rows_from_table(rows, table) ==
    LET rows_iter == IterRows(rows, table.min_row, table.max_row, table.min_col, table.max_col)
    IN  IF rows_iter = <<>>
        THEN Returned(<<>>, TRUE)
        ELSE _normalised_rows_from_iterable(rows_iter[1], Tail(rows_iter))

RECURSIVE Concat(_)
Concat(seqs) == IF seqs = <<>> THEN <<>> ELSE seqs[1] \o Concat(Tail(seqs))

\* normalised_rows.extend(part) for each part in order: the first exception
\* ends the loop
ExtendEach(parts) ==
    LET bad == {i \in 1..Len(parts) : parts[i].exc # ""}
    IN  IF bad = {}
        THEN Returned(Concat([i \in 1..Len(parts) |-> parts[i].rows]), TRUE)
        ELSE parts[CHOOSE i \in bad : \A j \in bad : i <= j]

\* sheets and tables are None or a sequence of names: `if sheets`, `if tables`
Given(names) == names # None /\ names # <<>>

RequestedSheetsWorkbookOrder(workbook, sheets) ==
    IF Given(sheets)
    THEN SelectSeq(workbook.sheetnames, LAMBDA n : n \in Range(sheets))
    ELSE workbook.sheetnames

\* requested_sheets = list(sheets) if sheets else workbook.sheetnames
RequestedSheets(workbook, sheets) ==
    IF Given(sheets) THEN sheets ELSE workbook.sheetnames

\* name in table_index
InTableIndex(workbook, name) ==
    \E i \in 1..Len(workbook.tables) : workbook.tables[i].name = name

\* table_index[name]: the dict comprehension keeps, for a name, the last
\* worksheet (in sheet order) that holds a table of that name
TableIndex(workbook, name) ==
    LET at == {i \in 1..Len(workbook.tables) : workbook.tables[i].name = name}
        pos(i) == CHOOSE k \in 1..Len(workbook.sheetnames) :
                      workbook.sheetnames[k] = workbook.tables[i].sheet
    IN  workbook.tables[CHOOSE i \in at : \A j \in at : pos(j) <= pos(i)]

\* one turn of the loop over the requested tables
FromTable(workbook, sheets, name) ==
    LET table == TableIndex(workbook, name)
    IN  IF Given(sheets) /\ table.sheet \notin Range(sheets)
        THEN Raised("ValueError", "Table is located on a worksheet which is not in the selected sheets",
                    <<name>>, TRUE)
        ELSE _rows_from_table(workbook.rows[table.sheet], table)

\* the names are looked up one by one, as the rows of each are extracted
read_workbook_lazy(path, workbook, sheets, tables) ==
    IF ~path.exists
    THEN Raised("FileNotFoundError", "", <<>>, FALSE)
    ELSE IF SuffixLower(path) \notin {s_xlsx}
    THEN Raised("ValueError", "Only .xlsx files are supported by the Excel loader", <<>>, FALSE)
    ELSE
    LET requested_sheets == RequestedSheets(workbook, sheets)
        sheet_part(name) ==
            IF name \notin Range(workbook.sheetnames)
            THEN Raised("ValueError", "Worksheet not found in workbook", <<name>>, TRUE)
            ELSE _rows_from_sheet(workbook.rows[name])
        table_part(name) ==
            IF ~InTableIndex(workbook, name)
            THEN Raised("ValueError", "Table not found in workbook", <<name>>, TRUE)
            ELSE FromTable(workbook, sheets, name)
    IN  IF Given(tables)
        THEN ExtendEach([i \in 1..Len(tables) |-> table_part(tables[i])])
        ELSE ExtendEach([i \in 1..Len(requested_sheets) |-> sheet_part(requested_sheets[i])])

read_workbook(path, workbook, sheets, tables) ==
    IF ~path.exists
    THEN Raised("FileNotFoundError", "", <<>>, FALSE)
    ELSE IF SuffixLower(path) \notin {s_xlsx}
    THEN Raised("ValueError", "Only .xlsx files are supported by the Excel loader", <<>>, FALSE)
    ELSE
    LET requested_sheets == RequestedSheets(workbook, sheets)
        no_sheet == {i \in 1..Len(requested_sheets) :
                        requested_sheets[i] \notin Range(workbook.sheetnames)}
        no_table == IF Given(tables)
                    THEN {i \in 1..Len(tables) : ~InTableIndex(workbook, tables[i])}
                    ELSE {}
        first(S) == CHOOSE i \in S : \A j \in S : i <= j
    IN  IF no_sheet # {}
        THEN Raised("ValueError", "Worksheet not found in workbook",
                    <<requested_sheets[first(no_sheet)]>>, TRUE)
        ELSE IF no_table # {}
        THEN Raised("ValueError", "Table not found in workbook",
                    <<tables[first(no_table)]>>, TRUE)
        ELSE IF Given(tables)
        THEN ExtendEach([i \in 1..Len(tables) |-> FromTable(workbook, sheets, tables[i])])
        ELSE ExtendEach([i \in 1..Len(requested_sheets) |->
                            _rows_from_sheet(workbook.rows[requested_sheets[i]])])

(***************************************************************************)
(* database.insert_rows, scenario.py and BridgeService.export_scenario.    *)
(* A stored row is [source, scenario, period, department, account, value,  *)
(* currency, metadata]; its id is its position in financial_facts.         *)
(***************************************************************************)
s_scenario_colon == <<"s","c","e","n","a","r","i","o",":">>

Payload(source, scenario, rows) ==
    [i \in 1..Len(rows) |->
        [source |-> source, scenario |-> scenario,
         period |-> rows[i].period, department |-> rows[i].department,
         account |-> rows[i].account, value |-> rows[i].value,
         currency |-> rows[i].currency, metadata |-> rows[i].metadata]]

\* the table holding the new rows only
insert_rows_overwriting(table, rows) == rows

\* the table after INSERT INTO financial_facts ... executemany(rows)
insert_rows(table, rows) == table \o rows

fetch_dataset(table, scenario) ==
    LET selected == SelectSeq(table, LAMBDA r : r.scenario = scenario)
    IN  [i \in 1..Len(selected) |->
            [period |-> selected[i].period, department |-> selected[i].department,
             account |-> selected[i].account, value |-> selected[i].value,
             currency |-> selected[i].currency, metadata |-> selected[i].metadata]]

\* the filters compared with the case of the letters kept
matches_exact(adj, row) ==
    IF Truthy(adj.department) /\ row.department # adj.department
    THEN FALSE
    ELSE IF Truthy(adj.account) /\ row.account # adj.account
    THEN FALSE
    ELSE TRUE

\* ScenarioAdjustment.matches
matches(adj, row) ==
    IF Truthy(adj.department) /\ Lower(row.department) # Lower(adj.department)
    THEN FALSE
    ELSE IF Truthy(adj.account) /\ Lower(row.account) # Lower(adj.account)
    THEN FALSE
    ELSE TRUE

\* the sum of the changes of the rules that match the row
RECURSIVE SumOfChanges(_, _)
SumOfChanges(adjustments, row) ==
    IF adjustments = <<>> THEN 0
    ELSE (IF matches(adjustments[1], row) THEN adjustments[1].percentage_change ELSE 0)
         + SumOfChanges(Tail(adjustments), row)

AdjustValueAdditive(value, adjustments, row) == value * (1 + SumOfChanges(adjustments, row))

\* the inner loop of apply_adjustments: adjusted_value after every rule
RECURSIVE AdjustValue(_, _, _)
AdjustValue(value, adjustments, row) ==
    IF adjustments = <<>> THEN value
    ELSE AdjustValue(IF matches(adjustments[1], row)
                     THEN value * (1 + adjustments[1].percentage_change)
                     ELSE value,
                     Tail(adjustments), row)

\* only the rows that some rule matches
apply_adjustments_matched(rows, adjustments) ==
    LET hit == SelectSeq(rows, LAMBDA r : \E j \in 1..Len(adjustments) : matches(adjustments[j], r))
    IN  [i \in 1..Len(hit) |-> [hit[i] EXCEPT !.value = AdjustValue(hit[i].value, adjustments, hit[i])]]

apply_adjustments(rows, adjustments) ==
    [i \in 1..Len(rows) |-> [rows[i] EXCEPT !.value = AdjustValue(rows[i].value, adjustments, rows[i])]]

\* the whole table adjusted when the label selects nothing
build_scenario_fallback(table, source_scenario, adjustments) ==
    LET base_rows == fetch_dataset(table, source_scenario)
        all_rows == [i \in 1..Len(table) |->
                        [period |-> table[i].period, department |-> table[i].department,
                         account |-> table[i].account, value |-> table[i].value,
                         currency |-> table[i].currency, metadata |-> table[i].metadata]]
    IN  apply_adjustments(IF base_rows = <<>> THEN all_rows ELSE base_rows, adjustments)

build_scenario(table, source_scenario, adjustments) ==
    LET base_rows == fetch_dataset(table, source_scenario)
    IN  IF base_rows = <<>> THEN <<>> ELSE apply_adjustments(base_rows, adjustments)

(***************************************************************************)
(* reporting.py: the two queries over financial_facts. TEXT columns are    *)
(* compared and ordered by the BINARY collation, byte by byte.             *)
(***************************************************************************)
\* a < b for two rows of ORDER BY columns
RECURSIVE KeyLess(_, _)
KeyLess(a, b) ==
    IF a = <<>> THEN FALSE
    ELSE IF a[1] = b[1] THEN KeyLess(Tail(a), Tail(b))
    ELSE StrLess(a[1], b[1])

\* GROUP BY ... ORDER BY the same columns: the distinct keys, ascending
RECURSIVE OrderBy(_)
OrderBy(keys) ==
    IF keys = {} THEN <<>>
    ELSE LET m == CHOOSE x \in keys : \A y \in keys \ {x} : KeyLess(x, y)
         IN  <<m>> \o OrderBy(keys \ {m})

LastValue(values) == values[Len(values)]

\* SUM(...) over the rows of a group (a group is never empty)
RECURSIVE SumValues(_)
SumValues(values) ==
    IF values = <<>> THEN 0 ELSE values[1] + SumValues(Tail(values))

\* scenario is None or a label; `if scenario:` is false for None and for ""
summarise_by_department(table, scenario) ==
    LET selected == IF Truthy(scenario)
                    THEN SelectSeq(table, LAMBDA r : r.scenario = scenario)
                    ELSE table
        keys == OrderBy({<<selected[i].period, selected[i].department>> : i \in 1..Len(selected)})
        group(k) == SelectSeq(selected, LAMBDA r : <<r.period, r.department>> = k)
        total(k) == SumValues([i \in 1..Len(group(k)) |-> group(k)[i].value])
    IN  [i \in 1..Len(keys) |->
            [period |-> keys[i][1], department |-> keys[i][2], total |-> total(keys[i])]]

CaseWhenAlways(row, scenario) == row.value

\* CASE WHEN scenario = ? THEN value ELSE 0 END
CaseWhen(row, scenario) == IF row.scenario = scenario THEN row.value ELSE 0

variance_report(table, actual_scenario, budget_scenario) ==
    LET selected == SelectSeq(table, LAMBDA r : r.scenario \in {actual_scenario, budget_scenario})
        keys == OrderBy({<<selected[i].period, selected[i].department, selected[i].account>> :
                            i \in 1..Len(selected)})
        group(k) == SelectSeq(selected, LAMBDA r : <<r.period, r.department, r.account>> = k)
        sum(k, scenario) == SumValues([i \in 1..Len(group(k)) |-> CaseWhen(group(k)[i], scenario)])
    IN  [i \in 1..Len(keys) |->
            [period |-> keys[i][1], department |-> keys[i][2], account |-> keys[i][3],
             actual |-> sum(keys[i], actual_scenario),
             budget |-> sum(keys[i], budget_scenario),
             variance |-> sum(keys[i], actual_scenario) - sum(keys[i], budget_scenario)]]

(***************************************************************************)
(* The inputs: a file is [name, exists, grid], grid being its rows of cell *)
(* texts (short rows and blank lines included). A .csv file holds the grid *)
(* as csv records, a workbook holds it on its only sheet.                  *)
(***************************************************************************)
t_1 == <<"1">>
t_S == <<"S">>
t_R == <<"R">>

h_plain == <<s_period, s_department, s_account, s_value>>
h_mixed == << <<" ","V","a","l","u","e">>, <<"A","C","C","O","U","N","T">>,
              <<"D","e","p","a","r","t","m","e","n","t"," ">>, <<"P","e","r","i","o","d">> >>
h_full == h_plain \o <<s_currency, s_metadata>>
h_extra == h_plain \o << <<"x">>, <<>> >>
h_novalue == <<s_period, s_department, s_account>>
h_two == <<s_value, <<"P","e","r","i","o","d">> >>
h_empty == << <<" ">>, <<>> >>

Headers == {h_plain, h_mixed, h_full, h_extra, h_novalue, h_two, h_empty}

r_ok == <<t_1, t_S, t_R, <<"1",",","2">> >>
r_ok2 == << <<" ","2"," ">>, t_S, <<"r">>, <<"-","7">>, <<" ","E","U"," ">>, <<"m"," ">> >>
r_bad == <<t_1, t_S, t_R, <<"x">> >>
r_nop == << <<" ">>, t_S, t_R, <<"5">> >>
r_line == <<>>
r_empties == << <<>>, <<>>, <<>>, <<>> >>
r_short == <<t_1, t_S>>
r_wscur == <<t_1, <<"s">>, t_R, <<"3">>, <<" ">>, <<>> >>
r_sep == <<t_1, t_S, t_R, <<" ","-","1",",","2","0","0"," ">> >>

DataRows == {r_ok, r_ok2, r_bad, r_nop, r_line, r_empties, r_short, r_wscur, r_sep}

\* the rows that may precede the header
Leading == {<<>>, <<r_line>>, << << <<>>, <<>> >> >>}

SeqsUpTo(S, n) == UNION {[1..k -> S] : k \in 0..n}

Grids == {<<>>} \cup
         {l \o <<h>> \o d : l \in Leading, h \in Headers, d \in SeqsUpTo(DataRows, MaxDataRows)}

n_csv == <<"a">> \o s_csv
n_xlsx == <<"a">> \o s_xlsx

Names == {n_csv, n_xlsx,
          <<"a",".","C","S","V">>, <<"a",".","X","l","s","x">>,
          <<"a",".","t","x","t">>, <<"a",".","c","s","v",".","b","a","k">>,
          <<"a",".","x","l","s">>, <<"a">>}

Files == {[name |-> n, exists |-> TRUE, grid |-> g] : n \in {n_csv, n_xlsx}, g \in Grids}
         \cup {[name |-> n, exists |-> e, grid |-> g] :
                  n \in Names, e \in BOOLEAN, g \in {<<h_plain, r_ok>>, <<r_line, h_two>>}}

PathOf(f) == [name |-> f.name, exists |-> f.exists]

\* csv.reader(fh): one record per line, a blank line being []
CsvRecords(grid) == grid

\* the rectangle of a worksheet: every row has max_column cells, the cells
\* that were never written being None
SheetRows(grid) ==
    LET width == CHOOSE w \in 0..10 :
                    /\ \A i \in 1..Len(grid) : Len(grid[i]) <= w
                    /\ (w = 0 \/ \E i \in 1..Len(grid) : Len(grid[i]) = w)
    IN  [i \in 1..Len(grid) |->
            [c \in 1..width |-> IF c <= Len(grid[i]) THEN grid[i][c] ELSE None]]

WorkbookOf(grid) ==
    [sheetnames |-> <<"Sheet1">>,
     rows |-> [n \in {"Sheet1"} |-> SheetRows(grid)],
     tables |-> <<>>]

NoCall == [op |-> "none", out |-> Returned(<<>>, FALSE), rows_loaded |-> 0]

NoFile == [name |-> <<>>, exists |-> FALSE, grid |-> <<>>]

\* the arguments of the last call, for the calls that take more than a file
NoArgs == [scenario |-> None]

(***************************************************************************)
(* database.py: the migrations, and the connections that apply them.       *)
(***************************************************************************)
MIGRATIONS == <<"001_create_ai_insights">>

Connections == 1..MaxConnections

\* a connection on which no call is running
Closed == [pc |-> "closed", call |-> "none", i |-> 0, pending |-> <<>>, exc |-> ""]

\* ENCRYPTED_API_KEY_PATH does not exist
NoKeyFile == [secret |-> None, text |-> None]

\* the environment without the bridge's variables
NoEnviron == [DATARAILS_OPEN_BRIDGE_TOKEN |-> None, DATARAILS_OPEN_API_KEY |-> None]

\* the bridge after init_db on a new database, before any request
InitBridge ==
    /\ ai_insights = <<>>
    /\ schema_migrations = MIGRATIONS
    /\ connections = [c \in Connections |-> Closed]
    /\ environ = NoEnviron
    /\ bridge_api_secret = None
    /\ bridge_api_key = NoKeyFile

(***************************************************************************)
(* The readers applied to one file (pure: the store is not touched).       *)
(***************************************************************************)
InitRead ==
    /\ InitBridge
    /\ financial_facts = <<>>
    /\ file \in Files
    /\ result = NoCall
    /\ args = NoArgs

ReadDataset ==
    /\ result' = [op |-> "read_dataset",
                  out |-> read_dataset(PathOf(file), CsvRecords(file.grid)),
                  rows_loaded |-> 0]
    /\ UNCHANGED bridge_vars
    /\ UNCHANGED <<financial_facts, file, args>>

ReadWorkbook ==
    /\ result' = [op |-> "read_workbook",
                  out |-> read_workbook(PathOf(file), WorkbookOf(file.grid), None, None),
                  rows_loaded |-> 0]
    /\ UNCHANGED bridge_vars
    /\ UNCHANGED <<financial_facts, file, args>>

NextRead == ReadDataset \/ ReadWorkbook

SpecRead == InitRead /\ [][NextRead]_vars

(***************************************************************************)
(* read_workbook with a selection of sheets and tables, on a workbook of   *)
(* two sheets. S1 holds a header and data rows from its first row on; its  *)
(* table T1 spans A1:D2. S2 is either a plain sheet or a sheet with a      *)
(* title row and a margin column around the range B2:E3 of its table T2.   *)
(***************************************************************************)
r_s2 == << <<"3">>, <<"T">>, t_R, <<"4">> >>

BookRows == {r_ok, r_ok2, r_bad}

Sheet1Grids == {SheetRows(<<h_plain>> \o d) : d \in SeqsUpTo(BookRows, MaxDataRows)}

g2_plain == <<h_plain, r_s2>>
g2_framed == << << <<"x">>, None, None, None, None >>,
                <<None>> \o h_plain,
                << <<"9">> >> \o r_s2,
                <<None>> \o r_ok >>

Sheet2Grids == {g2_plain, g2_framed}

T1 == [name |-> "T1", sheet |-> "S1", min_row |-> 1, max_row |-> 2, min_col |-> 1, max_col |-> 4]
T2 == [name |-> "T2", sheet |-> "S2", min_row |-> 2, max_row |-> 3, min_col |-> 2, max_col |-> 5]

Workbooks == {[sheetnames |-> <<"S1", "S2">>,
               rows |-> [n \in {"S1", "S2"} |-> IF n = "S1" THEN g1 ELSE g2],
               tables |-> t] :
                 g1 \in Sheet1Grids, g2 \in Sheet2Grids, t \in {<<>>, <<T1, T2>>}}

BookFiles == {[name |-> n_xlsx, exists |-> TRUE, workbook |-> w] : w \in Workbooks}

SheetLists == {None, <<>>, <<"S1">>, <<"S2">>, <<"S2", "S1">>, <<"S1", "Nope">>}

TableLists == {None, <<"T1">>, <<"T2">>, <<"T1", "T2">>, <<"T2", "T1">>, <<"T1", "Nope">>}

InitBook ==
    /\ InitBridge
    /\ financial_facts = <<>>
    /\ file \in BookFiles
    /\ result = NoCall
    /\ args = NoArgs

ReadWorkbookSelect(sheets, tables) ==
    /\ result' = [op |-> "read_workbook",
                  out |-> read_workbook(PathOf(file), file.workbook, sheets, tables),
                  rows_loaded |-> 0]
    /\ UNCHANGED bridge_vars
    /\ args' = [sheets |-> sheets, tables |-> tables]
    /\ UNCHANGED <<financial_facts, file>>

NextBook == \E sheets \in SheetLists, tables \in TableLists : ReadWorkbookSelect(sheets, tables)

SpecBook == InitBook /\ [][NextBook]_vars

(***************************************************************************)
(* The store and the operations that write it.                             *)
(***************************************************************************)
sc_actual == <<"A">>
sc_budget == <<"B">>
src_imports == <<"i">>

Scenarios == {sc_actual, sc_budget}
Sources == {src_imports}

StoreGrids == {<<h_plain, r_ok>>, <<h_plain, r_ok, r_bad>>, <<h_plain, r_nop>>,
               <<h_full, r_ok2, r_short>>, <<r_line, h_plain, r_bad>>, <<h_novalue, r_ok>>}

StoreFiles == {[name |-> n, exists |-> TRUE, grid |-> g] : n \in {n_csv, n_xlsx}, g \in StoreGrids}
              \cup {[name |-> n_csv, exists |-> FALSE, grid |-> <<>>]}

Requests == [source_scenario : Scenarios, target_scenario : Scenarios,
             department : {None, <<"s">>}, account : {None},
             percentage_change : {0, 1}, persist : BOOLEAN]

\* files that yield facts with a period, or no fact, or fail as a whole
LedgerGrids == {<<h_plain, r_ok>>, <<h_full, r_wscur, r_ok2>>, <<h_plain, r_ok, r_bad>>, <<h_plain>>}

LedgerFiles == {[name |-> n, exists |-> TRUE, grid |-> g] : n \in {n_csv, n_xlsx}, g \in LedgerGrids}

\* what the two readers return for each file (computed once per file)
ReadDatasetOf == [f \in StoreFiles \cup LedgerFiles |-> read_dataset(PathOf(f), CsvRecords(f.grid))]

ReadWorkbookOf ==
    [f \in StoreFiles \cup LedgerFiles |-> read_workbook(PathOf(f), WorkbookOf(f.grid), None, None)]

Init ==
    /\ InitBridge
    /\ financial_facts = <<>>
    /\ file = NoFile
    /\ result = NoCall
    /\ args = NoArgs

\* loader.load_file
LoadFile(f, source, scenario) ==
    \E out \in {ReadDatasetOf[f]} :
    \E payload \in {Payload(source, scenario, out.rows)} :
        /\ Len(financial_facts) + Len(out.rows) <= MaxFacts
        /\ file' = f
        /\ UNCHANGED bridge_vars
        /\ args' = [source |-> source, scenario |-> scenario]
        /\ IF out.exc # ""
           THEN /\ UNCHANGED financial_facts
                /\ result' = [op |-> "load_file", out |-> out, rows_loaded |-> 0]
           ELSE /\ financial_facts' = insert_rows(financial_facts, payload)
                /\ result' = [op |-> "load_file", out |-> out, rows_loaded |-> Len(payload)]

\* excel_loader.load_workbook_file
LoadWorkbookFile(f, source, scenario) ==
    \E out \in {ReadWorkbookOf[f]} :
    \E payload \in {Payload(source, scenario, out.rows)} :
        /\ Len(financial_facts) + Len(out.rows) <= MaxFacts
        /\ file' = f
        /\ UNCHANGED bridge_vars
        /\ args' = [source |-> source, scenario |-> scenario]
        /\ IF out.exc # ""
           THEN /\ UNCHANGED financial_facts
                /\ result' = [op |-> "load_workbook_file", out |-> out, rows_loaded |-> 0]
           ELSE /\ financial_facts' = insert_rows(financial_facts, payload)
                /\ result' = [op |-> "load_workbook_file", out |-> out,
                              rows_loaded |-> Len(payload)]

\* BridgeService.export_scenario
ExportScenario(request) ==
    \E adjustment \in {[department |-> request.department, account |-> request.account,
                         percentage_change |-> request.percentage_change]} :
    \E rows \in {build_scenario(financial_facts, request.source_scenario, <<adjustment>>)} :
    \E payload \in {Payload(s_scenario_colon \o request.source_scenario,
                             request.target_scenario, rows)} :
        /\ Len(financial_facts) + Len(rows) <= MaxFacts
        /\ UNCHANGED file
        /\ UNCHANGED bridge_vars
        /\ args' = request
        /\ IF rows = <<>>
           THEN /\ UNCHANGED financial_facts
                /\ result' = [op |-> "export_scenario",
                              out |-> Raised("HTTPException", "404", <<>>, FALSE),
                              rows_loaded |-> 0]
           ELSE IF request.persist
           THEN /\ financial_facts' = insert_rows(financial_facts, payload)
                /\ result' = [op |-> "export_scenario", out |-> Returned(rows, FALSE),
                              rows_loaded |-> Len(payload)]
           ELSE /\ UNCHANGED financial_facts
                /\ result' = [op |-> "export_scenario", out |-> Returned(rows, FALSE),
                              rows_loaded |-> 0]

Next ==
    \/ \E f \in StoreFiles, source \in Sources, scenario \in Scenarios :
          LoadFile(f, source, scenario)
    \/ \E f \in StoreFiles, source \in Sources, scenario \in Scenarios :
          LoadWorkbookFile(f, source, scenario)
    \/ \E request \in Requests : ExportScenario(request)

Spec == Init /\ [][Next]_vars

(***************************************************************************)
(* The queries on a store: the store is filled one inserted row at a time  *)
(* (insert_rows, as load_file, load_workbook_file and export_scenario call *)
(* it) and read by the reports and by build_scenario. A scenario label is  *)
(* any str: the CLI and the bridge pass it on unchecked, "" included.      *)
(***************************************************************************)
sc_blank == <<>>

\* the labels of the stored rows and of the queries
Labels == Scenarios \cup {sc_blank}

k_1SR == [period |-> t_1, department |-> t_S, account |-> t_R, value |-> 12,
          currency |-> s_USD, metadata |-> <<>>]
k_1sR == [k_1SR EXCEPT !.department = <<"s">>, !.value = 3]
k_2SQ == [k_1SR EXCEPT !.period = <<"2">>, !.account = <<"Q">>, !.value = 4]
k_1SQ == [k_1SR EXCEPT !.account = <<"Q">>, !.value = 0 - 7]

\* the payloads of one row that are inserted
Payloads == {Payload(src_imports, sc_actual, <<k>>) : k \in {k_1SR, k_1sR, k_2SQ, k_1SQ}}
            \cup {Payload(src_imports, sc_budget, <<k_1SQ>>)}
            \cup {Payload(src_imports, sc_blank, <<k_1SR>>)}

\* the lists of rules that build_scenario is given
Adjustments == {<<>>} \cup
               {<<[department |-> d, account |-> None, percentage_change |-> 1]>> : d \in {None, <<"s">>}}

\* database.insert_rows
InsertRows(payload) ==
    /\ Len(financial_facts) + Len(payload) <= MaxFacts
    /\ financial_facts' = insert_rows(financial_facts, payload)
    /\ result' = [op |-> "insert_rows", out |-> Returned(<<>>, FALSE), rows_loaded |-> Len(payload)]
    /\ UNCHANGED bridge_vars
    /\ args' = NoArgs
    /\ UNCHANGED file

\* reporting.summarise_by_department
Summarise(scenario) ==
    \E rows \in {summarise_by_department(financial_facts, scenario)} :
        /\ result' = [op |-> "summarise_by_department", out |-> Returned(rows, FALSE),
                      rows_loaded |-> 0]
        /\ UNCHANGED bridge_vars
        /\ args' = [scenario |-> scenario]
        /\ UNCHANGED <<financial_facts, file>>

\* reporting.variance_report
Variance(actual_scenario, budget_scenario) ==
    \E rows \in {variance_report(financial_facts, actual_scenario, budget_scenario)} :
        /\ result' = [op |-> "variance_report", out |-> Returned(rows, FALSE), rows_loaded |-> 0]
        /\ UNCHANGED bridge_vars
        /\ args' = [actual_scenario |-> actual_scenario, budget_scenario |-> budget_scenario]
        /\ UNCHANGED <<financial_facts, file>>

\* build_scenario that stores the rows it derived
BuildScenarioPersisting(source_scenario, adjustments) ==
    \E rows \in {build_scenario(financial_facts, source_scenario, adjustments)} :
        /\ result' = [op |-> "build_scenario", out |-> Returned(rows, FALSE), rows_loaded |-> 0]
        /\ UNCHANGED bridge_vars
        /\ args' = [source_scenario |-> source_scenario, adjustments |-> adjustments]
        /\ financial_facts' = IF Len(financial_facts) + Len(rows) <= MaxFacts
                              THEN insert_rows(financial_facts,
                                               Payload(s_scenario_colon \o source_scenario,
                                                       source_scenario, rows))
                              ELSE financial_facts
        /\ UNCHANGED file

\* scenario.build_scenario
BuildScenario(source_scenario, adjustments) ==
    \E rows \in {build_scenario(financial_facts, source_scenario, adjustments)} :
        /\ result' = [op |-> "build_scenario", out |-> Returned(rows, FALSE), rows_loaded |-> 0]
        /\ UNCHANGED bridge_vars
        /\ args' = [source_scenario |-> source_scenario, adjustments |-> adjustments]
        /\ UNCHANGED <<financial_facts, file>>

NextReport ==
    \/ \E payload \in Payloads : InsertRows(payload)
    \/ \E scenario \in {None} \cup Labels : Summarise(scenario)
    \/ \E actual_scenario \in Labels, budget_scenario \in Labels :
          Variance(actual_scenario, budget_scenario)
    \/ \E source_scenario \in Labels, adjustments \in Adjustments :
          BuildScenario(source_scenario, adjustments)

SpecReport == Init /\ [][NextReport]_vars

(***************************************************************************)
(* The bridge's operations on one store: files are loaded, scenarios are   *)
(* exported and the reports are read, in any order, with the files of     *)
(* LedgerFiles.                                                            *)
(***************************************************************************)
NextStore ==
    \/ \E f \in LedgerFiles, source \in Sources, scenario \in Scenarios :
          /\ f.name = n_csv
          /\ LoadFile(f, source, scenario)
    \/ \E f \in LedgerFiles, source \in Sources, scenario \in Scenarios :
          /\ f.name = n_xlsx
          /\ LoadWorkbookFile(f, source, scenario)
    \/ \E request \in Requests : ExportScenario(request)
    \/ \E scenario \in {None} \cup Scenarios : Summarise(scenario)
    \/ \E actual_scenario \in Scenarios, budget_scenario \in Scenarios :
          Variance(actual_scenario, budget_scenario)

SpecStore == Init /\ [][NextStore]_vars

(***************************************************************************)
(* The same operations with every label a caller may pass: the scenario of *)
(* a load and the source and target of an export are any str, the empty    *)
(* one included (LoadDataRequest and ScenarioExportRequest set no minimum   *)
(* length).                                                                *)
(***************************************************************************)
LabelRequests == [source_scenario : Labels, target_scenario : Labels,
                  department : {None, <<"s">>}, account : {None},
                  percentage_change : {0, 1}, persist : BOOLEAN]

NextLabels ==
    \/ \E f \in LedgerFiles, source \in Sources, scenario \in Labels :
          /\ f.name = n_csv
          /\ LoadFile(f, source, scenario)
    \/ \E f \in LedgerFiles, source \in Sources, scenario \in Labels :
          /\ f.name = n_xlsx
          /\ LoadWorkbookFile(f, source, scenario)
    \/ \E request \in LabelRequests : ExportScenario(request)
    \/ \E scenario \in {None} \cup Labels : Summarise(scenario)

SpecLabels == Init /\ [][NextLabels]_vars

(***************************************************************************)
(* scenario.apply_adjustments applied to rows and to lists of rules. A     *)
(* percentage_change is a whole number here (1 is +100%), which float      *)
(* arithmetic computes exactly.                                            *)
(***************************************************************************)
AdjustRows == {k_1SR, k_1sR, k_1SQ}

Rules == [department : {None, <<"s">>}, account : {None, <<"q">>}, percentage_change : {0, 1, 2}]
         \cup {[department |-> <<>>, account |-> None, percentage_change |-> 1],
               [department |-> <<"T">>, account |-> <<"Q">>, percentage_change |-> 1]}

RuleLists == SeqsUpTo(Rules, MaxRules)

InitAdjust ==
    /\ InitBridge
    /\ financial_facts = <<>>
    /\ file = NoFile
    /\ result = NoCall
    /\ args \in [rows : SeqsUpTo(AdjustRows, MaxDataRows), adjustments : RuleLists]

ApplyAdjustments ==
    /\ result' = [op |-> "apply_adjustments",
                  out |-> Returned(apply_adjustments(args.rows, args.adjustments), FALSE),
                  rows_loaded |-> 0]
    /\ UNCHANGED bridge_vars
    /\ UNCHANGED <<financial_facts, file, args>>

NextAdjust == ApplyAdjustments

SpecAdjust == InitAdjust /\ [][NextAdjust]_vars

(***************************************************************************)
(* office_bridge.py: the stored API key. Fernet is modelled by what it     *)
(* guarantees: a token opens under the secret that made it and under no    *)
(* other one.                                                              *)
(***************************************************************************)
Max(a, b) == IF a >= b THEN a ELSE b

\* Fernet(secret).encrypt(text)
Encrypt(secret, text) == [secret |-> secret, text |-> text]

\* Fernet(secret).decrypt(token): the text, or InvalidToken
Decrypt(secret, token) ==
    IF token.secret = secret THEN Returned(token.text, FALSE)
    ELSE Raised("InvalidToken", "", <<>>, FALSE)

\* the keys Fernet.generate_key() may return
SecretKeys == {<<"f">>, <<"g">>}

\* BridgeService.store_api_key: the two files after the call, the secret
\* being generated at its first use
store_api_key(secret_file, key_file, api_key, generated) ==
    IF ~Truthy(api_key)
    THEN [bridge_api_secret |-> secret_file, bridge_api_key |-> NoKeyFile]
    ELSE LET secret == IF secret_file = None THEN generated ELSE secret_file
         IN  [bridge_api_secret |-> secret, bridge_api_key |-> Encrypt(secret, api_key)]

\* BridgeService.get_api_key
get_api_key(env, secret_file, key_file) ==
    IF Truthy(env.DATARAILS_OPEN_API_KEY) THEN Returned(env.DATARAILS_OPEN_API_KEY, FALSE)
    ELSE IF key_file = NoKeyFile THEN Returned(None, FALSE)
    ELSE LET decrypted == Decrypt(secret_file, key_file)
         IN  IF decrypted.exc # ""
             THEN Raised("HTTPException", "500", <<>>, FALSE)
             ELSE decrypted

(***************************************************************************)
(* insights_repository.py and the two insight operations of the bridge.    *)
(***************************************************************************)
\* text LIKE '%part%': part occurs in text, ASCII letters compared without case
Like(text, part) ==
    \E i \in 0..(Len(text) - Len(part)) :
        Lower(SubSeq(text, i + 1, i + Len(part))) = Lower(part)

\* the WHERE clause of InsightsRepository.list: a filter is applied when it
\* is truthy
Where(record, actual, budget, prompt) ==
    /\ Truthy(actual) => record.actual = actual
    /\ Truthy(budget) => record.budget = budget
    /\ Truthy(prompt) => Like(IF record.prompt = None THEN <<>> ELSE record.prompt, prompt)

\* ORDER BY datetime(created_at) DESC, id DESC
RECURSIVE NewestFirst(_)
NewestFirst(records) ==
    IF records = {} THEN <<>>
    ELSE LET first == CHOOSE r \in records :
                          \A o \in records \ {r} :
                              \/ r.created_at > o.created_at
                              \/ (r.created_at = o.created_at /\ r.id > o.id)
         IN  <<first>> \o NewestFirst(records \ {first})

\* InsightsRepository.list: the records of the page and the total count
list(table, actual, budget, prompt, limit, offset) ==
    LET matching == {table[i] : i \in {j \in 1..Len(table) : Where(table[j], actual, budget, prompt)}}
        ordered == NewestFirst(matching)
    IN  [records |-> SubSeq(ordered, offset + 1, Min(offset + limit, Len(ordered))),
         total |-> Cardinality(matching)]

\* the offset counted from the page number itself
get_insights_history_skipping(table, actual, budget, prompt, page, page_size) ==
    LET clamped_page == Max(page, 1)
        clamped_size == Max(1, Min(page_size, 100))
        listed == list(table, actual, budget, prompt, clamped_size, clamped_page * clamped_size)
    IN  [exc |-> "", msg |-> "", items |-> listed.records, page |-> clamped_page,
         pageSize |-> clamped_size, total |-> listed.total]

\* BridgeService.get_insights_history
get_insights_history(table, actual, budget, prompt, page, page_size) ==
    LET clamped_page == Max(page, 1)
        clamped_size == Max(1, Min(page_size, 100))
        offset == (clamped_page - 1) * clamped_size
        listed == list(table, actual, budget, prompt, clamped_size, offset)
    IN  [exc |-> "", msg |-> "", items |-> listed.records, page |-> clamped_page,
         pageSize |-> clamped_size, total |-> listed.total]

\* InsightsRepository.create: id AUTOINCREMENT, created_at CURRENT_TIMESTAMP
\* (now is the second of the insert)
create(table, actual, budget, prompt, insights, row_count, now) ==
    Append(table, [id |-> Len(table) + 1, actual |-> actual, budget |-> budget,
                   prompt |-> prompt, insights |-> insights, row_count |-> row_count,
                   created_at |-> now])

\* the second of the last insert
LastSecond(table) == IF table = <<>> THEN 0 ELSE table[Len(table)].created_at

\* what ai.generate_insights gives back: a text, or one of its errors
Replies == {"text", "RuntimeError"}

\* BridgeService.generate_insights (api base, model and mode at their
\* defaults); tick is the number of seconds since the last insert
GenerateInsights(request, reply, tick) ==
    \E stored \in {get_api_key(environ, bridge_api_secret, bridge_api_key)} :
    \E api_key \in {IF Truthy(request.api_key) THEN request.api_key
                    ELSE IF stored.exc = "" THEN stored.rows ELSE None} :
    \E rows \in {variance_report(financial_facts, request.actual_scenario,
                                 request.budget_scenario)} :
        /\ Len(ai_insights) < MaxInsights
        /\ args' = request
        /\ UNCHANGED <<financial_facts, file, schema_migrations, connections,
                       environ, bridge_api_secret, bridge_api_key>>
        /\ IF ~Truthy(request.api_key) /\ stored.exc # ""
           THEN /\ result' = [op |-> "generate_insights", out |-> stored, rows_loaded |-> 0,
                              api_key |-> None]
                /\ UNCHANGED ai_insights
           ELSE IF ~Truthy(api_key)
           THEN /\ result' = [op |-> "generate_insights",
                              out |-> Raised("HTTPException", "400", <<>>, FALSE),
                              rows_loaded |-> 0, api_key |-> None]
                /\ UNCHANGED ai_insights
           ELSE IF reply = "RuntimeError"
           THEN /\ result' = [op |-> "generate_insights",
                              out |-> Raised("HTTPException", "502", <<>>, FALSE),
                              rows_loaded |-> 0, api_key |-> api_key]
                /\ UNCHANGED ai_insights
           ELSE /\ result' = [op |-> "generate_insights", out |-> Returned(rows, FALSE),
                              rows_loaded |-> 0, api_key |-> api_key]
                /\ ai_insights' = create(ai_insights, request.actual_scenario,
                                         request.budget_scenario, request.prompt,
                                         reply, Len(rows), LastSecond(ai_insights) + tick)

\* GET /insights/history as the service answers it
GetInsightsHistory(actual, budget, prompt, page, page_size) ==
    /\ result' = [op |-> "get_insights_history",
                  out |-> get_insights_history(ai_insights, actual, budget, prompt,
                                               page, page_size),
                  rows_loaded |-> 0]
    /\ args' = [actual |-> actual, budget |-> budget, prompt |-> prompt,
                page |-> page, page_size |-> page_size]
    /\ UNCHANGED <<financial_facts, file>>
    /\ UNCHANGED bridge_vars

p_Qx == <<"Q", "x">>
k_given == <<"k">>

InsightsRequests == [actual_scenario : Scenarios, budget_scenario : {sc_budget},
                     prompt : {None, p_Qx}, api_key : {k_given}]

HistoryFilters == {[actual |-> None, budget |-> None, prompt |-> None],
                   [actual |-> sc_actual, budget |-> <<>>, prompt |-> None],
                   [actual |-> <<>>, budget |-> sc_budget, prompt |-> <<"q">>],
                   [actual |-> sc_budget, budget |-> sc_budget, prompt |-> <<"x", "q">>]}

Pages == {0 - 1, 1, 2, 3}
PageSizes == {0, 1, 2, 101}

NextInsights ==
    \/ \E request \in InsightsRequests, reply \in Replies, tick \in {0, 1} :
          GenerateInsights(request, reply, tick)
    \/ \E f \in HistoryFilters, page \in Pages, page_size \in PageSizes :
          GetInsightsHistory(f.actual, f.budget, f.prompt, page, page_size)

SpecInsights == Init /\ [][NextInsights]_vars

(***************************************************************************)
(* database.run_migrations, one statement at a time, on connections that   *)
(* share one database file (init_db and BridgeService._connection call it  *)
(* on a connection of their own; the bridge serves its requests from       *)
(* several threads). The SELECT runs in autocommit; the INSERT opens the   *)
(* connection's transaction, which conn.commit() ends. A row inserted and  *)
(* not yet committed is seen by its own connection only.                   *)
(***************************************************************************)
\* the names in the table as the connection sees it
Seen(c) == schema_migrations \o connections[c].pending

Holds(table, name) == \E k \in 1..Len(table) : table[k] = name

\* another connection holds the write lock of an uncommitted INSERT
LockedByOther(c) == \E o \in Connections \ {c} : connections[o].pending # <<>>

Ended(c, out) ==
    /\ result' = [op |-> connections[c].call, out |-> out, rows_loaded |-> 0]
    /\ args' = [conn |-> c]

\* run_migrations(conn) is called: executescript(SCHEMA_MIGRATIONS) creates
\* the table if it is not there, and the loop starts
RunMigrations(c) ==
    /\ connections[c].pc = "closed"
    /\ connections' = [connections EXCEPT ![c] = [pc |-> "select", call |-> "run_migrations",
                                                  i |-> 1, pending |-> <<>>, exc |-> ""]]
    /\ UNCHANGED <<financial_facts, file, result, args, ai_insights, schema_migrations,
                   environ, bridge_api_secret, bridge_api_key>>

\* init_db(db_path) on a connection of its own: the two schema scripts
\* (CREATE ... IF NOT EXISTS), then run_migrations, commit and close
InitDb(c) ==
    /\ connections[c].pc = "closed"
    /\ connections' = [connections EXCEPT ![c] = [pc |-> "select", call |-> "init_db",
                                                  i |-> 1, pending |-> <<>>, exc |-> ""]]
    /\ UNCHANGED <<financial_facts, file, result, args, ai_insights, schema_migrations,
                   environ, bridge_api_secret, bridge_api_key>>

\* SELECT 1 FROM schema_migrations WHERE name = ?, and `if row: continue`
SelectMigration(c) ==
    /\ connections[c].pc = "select"
    /\ connections[c].i <= Len(MIGRATIONS)
    /\ connections' = [connections EXCEPT ![c] =
          IF Holds(Seen(c), MIGRATIONS[connections[c].i])
          THEN [@ EXCEPT !.i = @ + 1]
          ELSE [@ EXCEPT !.pc = "script"]]
    /\ UNCHANGED <<financial_facts, file, result, args, ai_insights, schema_migrations,
                   environ, bridge_api_secret, bridge_api_key>>

\* conn.executescript(script): CREATE TABLE / INDEX IF NOT EXISTS, which
\* keep the rows of a table that is there
ExecuteScript(c) ==
    /\ connections[c].pc = "script"
    /\ connections' = [connections EXCEPT ![c] = [@ EXCEPT !.pc = "insert"]]
    /\ UNCHANGED <<financial_facts, file, result, args, ai_insights, schema_migrations,
                   environ, bridge_api_secret, bridge_api_key>>

\* INSERT INTO schema_migrations (name) VALUES (?): name is the PRIMARY
\* KEY, so a name that is there raises IntegrityError; while another
\* connection holds the write lock the statement waits
InsertMigration(c) ==
    /\ connections[c].pc = "insert"
    /\ ~LockedByOther(c)
    /\ IF Holds(Seen(c), MIGRATIONS[connections[c].i])
       THEN /\ connections' = [connections EXCEPT ![c] =
                                  [Closed EXCEPT !.exc = "IntegrityError",
                                                 !.call = connections[c].call]]
            /\ Ended(c, Raised("IntegrityError", "UNIQUE constraint failed", <<>>, FALSE))
       ELSE /\ connections' = [connections EXCEPT ![c] =
                                  [@ EXCEPT !.pc = "select", !.i = @ + 1,
                                            !.pending = Append(@, MIGRATIONS[connections[c].i])]]
            /\ UNCHANGED <<result, args>>
    /\ UNCHANGED <<financial_facts, file, ai_insights, schema_migrations,
                   environ, bridge_api_secret, bridge_api_key>>

\* the wait for the write lock ends at the connection's timeout
InsertTimesOut(c) ==
    /\ connections[c].pc = "insert"
    /\ LockedByOther(c)
    /\ connections' = [connections EXCEPT ![c] =
                          [Closed EXCEPT !.exc = "OperationalError", !.call = connections[c].call]]
    /\ Ended(c, Raised("OperationalError", "database is locked", <<>>, FALSE))
    /\ UNCHANGED <<financial_facts, file, ai_insights, schema_migrations,
                   environ, bridge_api_secret, bridge_api_key>>

\* conn.commit() after the loop: the rows of the connection are in the table
CommitMigrations(c) ==
    /\ connections[c].pc = "select"
    /\ connections[c].i > Len(MIGRATIONS)
    /\ schema_migrations' = schema_migrations \o connections[c].pending
    /\ connections' = [connections EXCEPT ![c] = [Closed EXCEPT !.call = connections[c].call]]
    /\ Ended(c, Returned(<<>>, FALSE))
    /\ UNCHANGED <<financial_facts, file, ai_insights,
                   environ, bridge_api_secret, bridge_api_key>>

\* a database file on which no migration was applied yet
InitMigrate ==
    /\ financial_facts = <<>>
    /\ file = NoFile
    /\ result = NoCall
    /\ args = NoArgs
    /\ ai_insights = <<>>
    /\ schema_migrations = <<>>
    /\ connections = [c \in Connections |-> Closed]
    /\ environ = NoEnviron
    /\ bridge_api_secret = None
    /\ bridge_api_key = NoKeyFile

NextMigrate ==
    \E c \in Connections :
        \/ RunMigrations(c)
        \/ InitDb(c)
        \/ SelectMigration(c)
        \/ ExecuteScript(c)
        \/ InsertMigration(c)
        \/ InsertTimesOut(c)
        \/ CommitMigrations(c)

SpecMigrate == InitMigrate /\ [][NextMigrate]_vars

(***************************************************************************)
(* POST /settings/api-key behind require_bridge_token, and the key that    *)
(* generate_insights then uses. The environment of the server is chosen at *)
(* its start.                                                              *)
(***************************************************************************)
s_bearer == <<"b", "e", "a", "r", "e", "r">>

\* the credentials of a request without Authorization header (None)
NoCredentials == [scheme |-> None, credentials |-> None]

\* the request stores the key without a look at its token
SettingsApiKeyUnchecked(credentials, api_key, generated) ==
    \E stored \in {store_api_key(bridge_api_secret, bridge_api_key, api_key, generated)} :
        /\ result' = [op |-> "settings_api_key", out |-> Returned(<<>>, FALSE), rows_loaded |-> 0]
        /\ bridge_api_secret' = stored.bridge_api_secret
        /\ bridge_api_key' = stored.bridge_api_key
        /\ args' = [credentials |-> credentials, api_key |-> api_key]
        /\ UNCHANGED <<financial_facts, file, ai_insights, schema_migrations, connections, environ>>

\* settings_api_key: require_bridge_token, then BridgeService.store_api_key;
\* credentials is NoCredentials without an Authorization header
SettingsApiKey(credentials, api_key, generated) ==
    \E expected \in {environ.DATARAILS_OPEN_BRIDGE_TOKEN} :
    \E stored \in {store_api_key(bridge_api_secret, bridge_api_key, api_key, generated)} :
        /\ args' = [credentials |-> credentials, api_key |-> api_key]
        /\ UNCHANGED <<financial_facts, file, ai_insights, schema_migrations, connections, environ>>
        /\ IF ~Truthy(expected)
           THEN /\ result' = [op |-> "settings_api_key",
                              out |-> Raised("HTTPException", "503", <<>>, FALSE),
                              rows_loaded |-> 0]
                /\ UNCHANGED <<bridge_api_secret, bridge_api_key>>
           ELSE IF \/ credentials = NoCredentials
                   \/ Lower(credentials.scheme) # s_bearer
                   \/ credentials.credentials # expected
           THEN /\ result' = [op |-> "settings_api_key",
                              out |-> Raised("HTTPException", "401", <<>>, FALSE),
                              rows_loaded |-> 0]
                /\ UNCHANGED <<bridge_api_secret, bridge_api_key>>
           ELSE /\ result' = [op |-> "settings_api_key", out |-> Returned(<<>>, FALSE),
                              rows_loaded |-> 0]
                /\ bridge_api_secret' = stored.bridge_api_secret
                /\ bridge_api_key' = stored.bridge_api_key

t_bridge == <<"t">>
k_env == <<"e">>
k_stored == <<"k">>

Environs == [DATARAILS_OPEN_BRIDGE_TOKEN : {None, <<>>, t_bridge},
             DATARAILS_OPEN_API_KEY : {None, <<>>, k_env}]

Credentials == {NoCredentials} \cup [scheme : {<<"B", "e", "a", "r", "e", "r">>, <<"B", "a", "s", "i", "c">>},
                            credentials : {t_bridge, <<"u">>}]

ApiKeys == {None, <<>>, k_stored, <<"j">>}

KeyRequests == [actual_scenario : {sc_actual}, budget_scenario : {sc_budget},
                prompt : {None}, api_key : {None, <<>>, k_given}]

InitKeys ==
    /\ financial_facts = <<>>
    /\ file = NoFile
    /\ result = NoCall
    /\ args = NoArgs
    /\ ai_insights = <<>>
    /\ schema_migrations = MIGRATIONS
    /\ connections = [c \in Connections |-> Closed]
    /\ environ \in Environs
    /\ bridge_api_secret = None
    /\ bridge_api_key = NoKeyFile

NextKeys ==
    \/ \E credentials \in Credentials, api_key \in ApiKeys, generated \in SecretKeys :
          SettingsApiKey(credentials, api_key, generated)
    \/ \E request \in KeyRequests, reply \in Replies :
          GenerateInsights(request, reply, 1)

SpecKeys == InitKeys /\ [][NextKeys]_vars

(***************************************************************************)
(* Vocabulary of the properties, stated on the grid of a file.             *)
(***************************************************************************)
CsvNames == {n_csv, <<"a",".","C","S","V">>}
XlsxNames == {n_xlsx, <<"a",".","X","l","s","x">>}

ReadCsv == result.op = "read_dataset" /\ file.exists /\ file.name \in CsvNames
ReadXlsx == result.op = "read_workbook" /\ file.exists /\ file.name \in XlsxNames

NonBlankRow(row) == \E j \in 1..Len(row) : row[j] # <<>>

\* the index of the first row with a non-empty cell, 0 if there is none
HeaderIndex(grid) ==
    LET found == {i \in 1..Len(grid) : NonBlankRow(grid[i])}
    IN  IF found = {} THEN 0 ELSE CHOOSE i \in found : \A j \in found : i <= j

ColumnNames(header) == [j \in 1..Len(header) |-> Lower(Strip(header[j]))]

\* the rows after row h that have a non-empty cell
DataAfter(grid, h) == SelectSeq(SubSeq(grid, h + 1, Len(grid)), NonBlankRow)

HasColumn(names, name) == \E j \in 1..Len(names) : names[j] = name

\* the cell of a row under the column of that name: None if the row is too
\* short or the column absent
CellUnder(names, row, name) ==
    LET cols == {j \in 1..Len(names) : names[j] = name}
        col == CHOOSE j \in cols : \A k \in cols : k <= j
    IN  IF cols = {} THEN None
        ELSE IF col > Len(row) THEN None
        ELSE row[col]

ParsesAsNumber(cell) == cell # None /\ ParseFloat(Strip(RemoveCommas(cell))).ok

NonEmptyTrimmed(cell) == cell # None /\ Strip(cell) # <<>>

ValidDataRow(names, row) ==
    /\ NonEmptyTrimmed(CellUnder(names, row, s_period))
    /\ NonEmptyTrimmed(CellUnder(names, row, s_department))
    /\ NonEmptyTrimmed(CellUnder(names, row, s_account))
    /\ ParsesAsNumber(CellUnder(names, row, s_value))

(***************************************************************************)
(* C1: every row of financial_facts has a period, a department and an      *)
(* account that are non-empty after trimming whitespace.                   *)
(***************************************************************************)
C1_StoredKeysNonEmpty ==
    \A i \in 1..Len(financial_facts) :
        /\ Strip(financial_facts[i].period) # <<>>
        /\ Strip(financial_facts[i].department) # <<>>
        /\ Strip(financial_facts[i].account) # <<>>

(***************************************************************************)
(* C2: a load of a file in which some data row (a row after the header,    *)
(* the header being the first row with a non-empty cell) has a value cell  *)
(* that does not parse as a number fails and leaves financial_facts as it  *)
(* was.                                                                    *)
(***************************************************************************)
HasBadValueCell(grid) ==
    LET h == HeaderIndex(grid)
        names == ColumnNames(grid[h])
        data == DataAfter(grid, h)
    IN  /\ h # 0
        /\ \E k \in 1..Len(data) :
              /\ CellUnder(names, data[k], s_value) # None
              /\ ~ParsesAsNumber(CellUnder(names, data[k], s_value))

C2_BadValueAbortsLoad ==
    [][(result'.op \in {"load_file", "load_workbook_file"} /\ HasBadValueCell(file'.grid))
         => (result'.out.exc # "" /\ financial_facts' = financial_facts)]_vars

(***************************************************************************)
(* C3: for a CSV whose first row is a header with the four required        *)
(* columns and whose data rows are valid, read_dataset returns one fact    *)
(* per data row that has a non-empty cell, in source order, and skips the  *)
(* data rows whose cells are all empty.                                    *)
(***************************************************************************)
C3_OneFactPerNonBlankRow ==
    (ReadCsv /\ HeaderIndex(file.grid) = 1)
    => LET names == ColumnNames(file.grid[1])
           data == DataAfter(file.grid, 1)
           rows == result.out.rows
       IN  (/\ \A i \in 1..4 : HasColumn(names, REQUIRED_COLUMNS[i])
            /\ \A k \in 1..Len(data) : ValidDataRow(names, data[k]))
           => /\ result.out.exc = ""
              /\ Len(rows) = Len(data)
              /\ \A k \in 1..Len(data) :
                    /\ rows[k].period = Strip(CellUnder(names, data[k], s_period))
                    /\ rows[k].department = Strip(CellUnder(names, data[k], s_department))
                    /\ rows[k].account = Strip(CellUnder(names, data[k], s_account))
                    /\ rows[k].value =
                         ParseFloat(Strip(RemoveCommas(CellUnder(names, data[k], s_value)))).value

(***************************************************************************)
(* C4: when the header (the first row with a non-empty cell, with a cell   *)
(* that is non-empty after trimming) lacks required columns, read_dataset  *)
(* and read_workbook fail with the schema error that lists exactly the     *)
(* missing columns, in ascending order and without duplicates.             *)
(***************************************************************************)
C4_SchemaErrorListsMissing ==
    (ReadCsv \/ ReadXlsx)
    => LET h == HeaderIndex(file.grid)
           names == ColumnNames(file.grid[h])
           lacking == {c \in Range(REQUIRED_COLUMNS) : ~HasColumn(names, c)}
           listed == result.out.missing
       IN  (h # 0 /\ (\E j \in 1..Len(names) : names[j] # <<>>) /\ lacking # {})
           => /\ result.out.exc = "ValueError"
              /\ result.out.msg = "Missing required columns"
              /\ Range(listed) = lacking
              /\ \A i \in 1..(Len(listed) - 1) : StrLess(listed[i], listed[i + 1])

(***************************************************************************)
(* C5: the blank rows that precede the header are skipped: reading a grid  *)
(* whose header names a column gives what reading the grid without its     *)
(* leading blank rows gives.                                               *)
(***************************************************************************)
HeaderNamesAColumn(grid) ==
    /\ HeaderIndex(grid) # 0
    /\ \E j \in 1..Len(grid[HeaderIndex(grid)]) : Strip(grid[HeaderIndex(grid)][j]) # <<>>

DropLeadingBlank(grid) ==
    IF HeaderIndex(grid) = 0 THEN <<>> ELSE SubSeq(grid, HeaderIndex(grid), Len(grid))

C5_LeadingBlankRowsSkipped ==
    /\ (ReadCsv /\ HeaderNamesAColumn(file.grid))
       => result.out = read_dataset(PathOf(file), CsvRecords(DropLeadingBlank(file.grid)))
    /\ (ReadXlsx /\ HeaderNamesAColumn(file.grid))
       => result.out = read_workbook(PathOf(file), WorkbookOf(DropLeadingBlank(file.grid)),
                                     None, None)

(***************************************************************************)
(* C6: a header row (the first row) whose cells are all empty after        *)
(* trimming gives zero facts and no error, in both readers.                *)
(***************************************************************************)
C6_EmptyHeaderGivesNoFacts ==
    ((ReadCsv \/ ReadXlsx) /\ HeaderIndex(file.grid) = 1
        /\ \A j \in 1..Len(file.grid[1]) : Strip(file.grid[1][j]) = <<>>)
    => (result.out.exc = "" /\ result.out.rows = <<>>)

(***************************************************************************)
(* C7: every failure of read_dataset or read_workbook is a documented      *)
(* error: not-found (FileNotFoundError) or one of the ValueErrors          *)
(* unsupported-format, schema, value-parse, conflict.                      *)
(***************************************************************************)
C7_OnlyDocumentedErrors ==
    result.op \in {"read_dataset", "read_workbook"}
    => result.out.exc \in {"", "FileNotFoundError", "ValueError"}

(***************************************************************************)
(* C8: on the same grid the CSV reader and the by-sheet workbook reader    *)
(* return the same facts, or both fail.                                    *)
(***************************************************************************)
C8_SameOutcomeOnBothPaths ==
    ReadCsv
    => LET other == read_workbook([name |-> n_xlsx, exists |-> TRUE],
                                  WorkbookOf(file.grid), None, None)
       IN  \/ result.out.exc # "" /\ other.exc # ""
           \/ result.out.exc = "" /\ other.exc = "" /\ result.out.rows = other.rows

(***************************************************************************)
(* C9: a fact's currency is "USD" when the row has no currency cell or an  *)
(* empty one, and the trimmed cell text otherwise; its metadata is ""      *)
(* when the row has no metadata cell or an empty one, and the trimmed cell *)
(* text otherwise.                                                         *)
(***************************************************************************)
TrimmedOr(cell, default) == IF cell = None \/ cell = <<>> THEN default ELSE Strip(cell)

C9_CurrencyAndMetadataDefaults ==
    ((ReadCsv \/ ReadXlsx) /\ result.out.exc = "" /\ HeaderIndex(file.grid) # 0)
    => LET h == HeaderIndex(file.grid)
           names == ColumnNames(file.grid[h])
           data == DataAfter(file.grid, h)
           rows == result.out.rows
       IN  Len(rows) = Len(data)
           => \A k \in 1..Len(rows) :
                 /\ rows[k].currency = TrimmedOr(CellUnder(names, data[k], s_currency), s_USD)
                 /\ rows[k].metadata = TrimmedOr(CellUnder(names, data[k], s_metadata), <<>>)

\* a read that returned a fact with a trimmed currency and metadata, and a
\* fact of a row too short to have them
C9_Witness ==
    /\ ReadCsv
    /\ file.grid = <<h_full, r_ok2, r_ok>>
    /\ result.out.exc = ""
    /\ Len(result.out.rows) = 2
    /\ result.out.rows[1].currency = <<"E","U">>
    /\ result.out.rows[1].metadata = <<"m">>
    /\ result.out.rows[2].currency = s_USD
    /\ result.out.rows[2].metadata = <<>>

(***************************************************************************)
(* C10: read_dataset accepts only the extension .csv and read_workbook     *)
(* only .xlsx, in any letter case; an existing file of another extension   *)
(* fails as unsupported and a missing path as not found, both before any   *)
(* content is read and without facts.                                      *)
(***************************************************************************)
C10_PathChecks ==
    /\ result.op = "read_dataset"
       => /\ ~file.exists
             => (result.out.exc = "FileNotFoundError" /\ ~result.out.opened
                 /\ result.out.rows = <<>>)
          /\ (file.exists /\ file.name \notin CsvNames)
             => (result.out.exc = "ValueError"
                 /\ result.out.msg = "Only CSV files are supported in the open MVP"
                 /\ ~result.out.opened /\ result.out.rows = <<>>)
          /\ (file.exists /\ file.name \in CsvNames) => result.out.opened
    /\ result.op = "read_workbook"
       => /\ ~file.exists
             => (result.out.exc = "FileNotFoundError" /\ ~result.out.opened
                 /\ result.out.rows = <<>>)
          /\ (file.exists /\ file.name \notin XlsxNames)
             => (result.out.exc = "ValueError"
                 /\ result.out.msg = "Only .xlsx files are supported by the Excel loader"
                 /\ ~result.out.opened /\ result.out.rows = <<>>)
          /\ (file.exists /\ file.name \in XlsxNames) => result.out.opened

\* read_dataset refused an existing file that is not a .csv
C10_Witness ==
    /\ result.op = "read_dataset"
    /\ file.exists
    /\ file.name = <<"a",".","t","x","t">>
    /\ result.out.exc = "ValueError"
    /\ ~result.out.opened

(***************************************************************************)
(* Vocabulary of the properties of read_workbook with a selection.         *)
(***************************************************************************)
\* the names a list asks for: none when the list is absent
Asked(names) == IF names = None THEN {} ELSE Range(names)

SheetNamesOf(workbook) == Range(workbook.sheetnames)

TableNamesOf(workbook) == {workbook.tables[i].name : i \in 1..Len(workbook.tables)}

Selected == result.op = "read_workbook" /\ result # NoCall

(***************************************************************************)
(* C11: when a requested sheet name is not a sheet of the workbook, or a   *)
(* requested table name is not a table of the workbook, read_workbook      *)
(* fails, returns no facts, and its error is the not-found error naming a  *)
(* requested name that is absent; it is that error whatever the rows of    *)
(* the sheets and tables that do exist hold, since no row is extracted     *)
(* before it.                                                              *)
(***************************************************************************)
C11_MissingNameFailsFirst ==
    LET no_sheets == Asked(args.sheets) \ SheetNamesOf(file.workbook)
        no_tables == Asked(args.tables) \ TableNamesOf(file.workbook)
    IN  (Selected /\ (no_sheets # {} \/ no_tables # {}))
        => /\ result.out.exc = "ValueError"
           /\ result.out.rows = <<>>
           /\ \/ /\ result.out.msg = "Worksheet not found in workbook"
                 /\ Len(result.out.missing) = 1
                 /\ result.out.missing[1] \in no_sheets
              \/ /\ result.out.msg = "Table not found in workbook"
                 /\ Len(result.out.missing) = 1
                 /\ result.out.missing[1] \in no_tables

\* the missing sheet is named although the sheet listed before it holds a
\* value that does not parse
C11_Witness ==
    /\ Selected
    /\ args.sheets = <<"S1", "Nope">>
    /\ args.tables = None
    /\ file.workbook.rows["S1"] = SheetRows(<<h_plain, r_bad>>)
    /\ result.out.msg = "Worksheet not found in workbook"
    /\ result.out.missing = <<"Nope">>

\* every requested name is a sheet or a table of the workbook
NamesExist ==
    /\ Asked(args.sheets) \subseteq SheetNamesOf(file.workbook)
    /\ Asked(args.tables) \subseteq TableNamesOf(file.workbook)

\* the sheet of a table of the workbook
SheetOfTable(workbook, name) ==
    (CHOOSE t \in Range(workbook.tables) : t.name = name).sheet

(***************************************************************************)
(* C12: when a sheet list and a table list are both supplied, every name   *)
(* exists, and some requested table lies on a sheet that is not in the     *)
(* sheet list, read_workbook fails with the conflict error and returns no  *)
(* facts, whatever the other requested tables are.                         *)
(***************************************************************************)
C12_ExcludedTableSheetIsConflict ==
    (/\ Selected
     /\ Given(args.sheets) /\ Given(args.tables)
     /\ NamesExist
     /\ \E t \in Asked(args.tables) :
            SheetOfTable(file.workbook, t) \notin Asked(args.sheets))
    => /\ result.out.exc = "ValueError"
       /\ result.out.msg = "Table is located on a worksheet which is not in the selected sheets"
       /\ result.out.rows = <<>>

\* the cells of a table's range as texts, row by row: a cell that is None
\* or lies outside the sheet is the empty text
RangeOf(workbook, name) ==
    LET t == CHOOSE t \in Range(workbook.tables) : t.name = name
        sheet == workbook.rows[t.sheet]
        text(r, c) == IF r > Len(sheet) THEN <<>>
                      ELSE IF c > Len(sheet[r]) THEN <<>>
                      ELSE IF sheet[r][c] = None THEN <<>>
                      ELSE sheet[r][c]
    IN  [i \in 1..(t.max_row - t.min_row + 1) |->
            [j \in 1..(t.max_col - t.min_col + 1) |-> text(t.min_row + i - 1, t.min_col + j - 1)]]

\* the facts of a grid whose first row is the header and whose data rows
\* are valid
FactsOf(grid) ==
    LET names == ColumnNames(grid[1])
        data == DataAfter(grid, 1)
    IN  IF \A j \in 1..Len(names) : names[j] = <<>> THEN <<>>
        ELSE [k \in 1..Len(data) |->
                [period |-> Strip(CellUnder(names, data[k], s_period)),
                 department |-> Strip(CellUnder(names, data[k], s_department)),
                 account |-> Strip(CellUnder(names, data[k], s_account)),
                 value |-> ParseFloat(Strip(RemoveCommas(CellUnder(names, data[k], s_value)))).value,
                 currency |-> TrimmedOr(CellUnder(names, data[k], s_currency), s_USD),
                 metadata |-> TrimmedOr(CellUnder(names, data[k], s_metadata), <<>>)]]

(***************************************************************************)
(* C13: when tables are requested (and every requested table's sheet is in *)
(* the sheet list, if there is one) and read_workbook returns, its facts   *)
(* are those of the rows inside the ranges of the requested tables, the    *)
(* first row of each range being the header; the rows of the sheets that   *)
(* lie outside the ranges give no fact.                                    *)
(***************************************************************************)
C13_OnlyRowsInsideTableRanges ==
    (/\ Selected
     /\ Given(args.tables)
     /\ NamesExist
     /\ Given(args.sheets) =>
            \A t \in Asked(args.tables) : SheetOfTable(file.workbook, t) \in Asked(args.sheets)
     /\ result.out.exc = "")
    => result.out.rows =
           Concat([i \in 1..Len(args.tables) |-> FactsOf(RangeOf(file.workbook, args.tables[i]))])

\* both tables read: one fact each, though each sheet holds a second data
\* row below the range
C13_Witness ==
    /\ Selected
    /\ args.sheets = None
    /\ args.tables = <<"T1", "T2">>
    /\ file.workbook.rows["S1"] = SheetRows(<<h_plain, r_ok, r_ok2>>)
    /\ file.workbook.rows["S2"] = g2_framed
    /\ result.out.exc = ""
    /\ Len(result.out.rows) = 2
    /\ result.out.rows[1].period = t_1
    /\ result.out.rows[2].period = <<"3">>

\* the facts of a sheet: its header is its first row with a non-empty cell
SheetFacts(workbook, name) ==
    LET sheet == workbook.rows[name]
        grid == [i \in 1..Len(sheet) |->
                    [j \in 1..Len(sheet[i]) |-> IF sheet[i][j] = None THEN <<>> ELSE sheet[i][j]]]
        h == HeaderIndex(grid)
    IN  IF h = 0 THEN <<>> ELSE FactsOf(SubSeq(grid, h, Len(grid)))

(***************************************************************************)
(* C14: the facts read_workbook returns are the facts of each requested    *)
(* table, or else of each requested sheet, joined in the order of the      *)
(* caller's list, and the facts of every sheet in workbook order when no   *)
(* list is given; the facts of one sheet or table keep the order of its    *)
(* rows.                                                                   *)
(***************************************************************************)
C14_ConcatenatedInRequestOrder ==
    (/\ Selected
     /\ NamesExist
     /\ result.out.exc = "")
    => result.out.rows =
           IF Given(args.tables)
           THEN Concat([i \in 1..Len(args.tables) |->
                           FactsOf(RangeOf(file.workbook, args.tables[i]))])
           ELSE IF Given(args.sheets)
           THEN Concat([i \in 1..Len(args.sheets) |-> SheetFacts(file.workbook, args.sheets[i])])
           ELSE Concat([i \in 1..Len(file.workbook.sheetnames) |->
                           SheetFacts(file.workbook, file.workbook.sheetnames[i])])

\* the sheets were asked for against workbook order: the fact of S2 comes
\* first, then the two facts of S1 in row order
C14_Witness ==
    /\ Selected
    /\ args.sheets = <<"S2", "S1">>
    /\ args.tables = None
    /\ file.workbook.sheetnames = <<"S1", "S2">>
    /\ file.workbook.rows["S1"] = SheetRows(<<h_plain, r_ok2, r_ok>>)
    /\ file.workbook.rows["S2"] = g2_plain
    /\ result.out.exc = ""
    /\ Len(result.out.rows) = 3
    /\ result.out.rows[1].period = <<"3">>
    /\ result.out.rows[2].period = <<"2">>
    /\ result.out.rows[3].period = t_1

\* a text that is a whole number written with ',' separators: optional
\* whitespace around an optional sign followed by digits and commas
IsSeparatedNumber(cell) ==
    /\ cell # None
    /\ LET t == Strip(cell)
           body == IF t # <<>> /\ t[1] \in {"+", "-"} THEN Tail(t) ELSE t
       IN  /\ \A i \in 1..Len(body) : body[i] \in Range(Digits) \cup {","}
           /\ \E i \in 1..Len(body) : body[i] \in Range(Digits)

\* the number such a text denotes: its digits, negated under a '-'
SeparatedValue(cell) ==
    LET t == Strip(cell)
        digits == SelectSeq(t, LAMBDA c : c \in Range(Digits))
    IN  IF t[1] = "-" THEN 0 - DigitsValue(digits) ELSE DigitsValue(digits)

(***************************************************************************)
(* C15: when the header is the first row and names the required columns,   *)
(* and every later row is a blank line or has its three keys and a value   *)
(* that is a number written with ',' separators, the read returns one fact *)
(* per such row and the value of each fact is the number the text denotes  *)
(* once the commas and the surrounding whitespace are dropped.             *)
(***************************************************************************)
C15_SeparatorsIgnored ==
    ((ReadCsv \/ ReadXlsx) /\ HeaderIndex(file.grid) = 1)
    => LET names == ColumnNames(file.grid[1])
           data == SelectSeq(Tail(file.grid), LAMBDA r : r # <<>>)
           clean(r) == /\ CellUnder(names, r, s_period) # None
                       /\ CellUnder(names, r, s_department) # None
                       /\ CellUnder(names, r, s_account) # None
                       /\ IsSeparatedNumber(CellUnder(names, r, s_value))
           rows == result.out.rows
       IN  (/\ \A i \in 1..4 : HasColumn(names, REQUIRED_COLUMNS[i])
            /\ \A k \in 1..Len(data) : clean(data[k]))
           => /\ result.out.exc = ""
              /\ Len(rows) = Len(data)
              /\ \A k \in 1..Len(data) :
                    rows[k].value = SeparatedValue(CellUnder(names, data[k], s_value))

\* " -1,200 " was read as -1200 and "1,2" as 12
C15_Witness ==
    /\ ReadCsv
    /\ file.grid = <<h_plain, r_sep, r_ok>>
    /\ result.out.exc = ""
    /\ Len(result.out.rows) = 2
    /\ result.out.rows[1].value = 0 - 1200
    /\ result.out.rows[2].value = 12

(***************************************************************************)
(* Vocabulary of the properties of the reports.                            *)
(***************************************************************************)
\* the sum of the values of the stored rows at the positions idx
RECURSIVE TotalOf(_)
TotalOf(idx) ==
    IF idx = {} THEN 0
    ELSE LET i == CHOOSE i \in idx : TRUE
         IN  financial_facts[i].value + TotalOf(idx \ {i})

\* the positions of the stored rows with that scenario label
WithScenario(s) == {i \in 1..Len(financial_facts) : financial_facts[i].scenario = s}

AllFacts == 1..Len(financial_facts)

DepartmentKey(r) == <<r.period, r.department>>

AccountKey(r) == <<r.period, r.department, r.account>>

\* the key a comes before the key b: by the first column, then the next
Before(a, b) ==
    \E n \in 1..Len(a) : /\ \A m \in 1..(n - 1) : a[m] = b[m]
                         /\ StrLess(a[n], b[n])

C17_FilterSelectsOnlyItsScenario ==
    (result.op = "summarise_by_department" /\ args.scenario # None)
    => LET selected == WithScenario(args.scenario)
           rows == result.out.rows
       IN  /\ {DepartmentKey(rows[k]) : k \in 1..Len(rows)}
                = {DepartmentKey(financial_facts[i]) : i \in selected}
           /\ \A k \in 1..Len(rows) :
                 rows[k].total = TotalOf({i \in selected :
                     DepartmentKey(financial_facts[i]) = DepartmentKey(rows[k])})

\* the scenario labels present in the store
Present == {financial_facts[i].scenario : i \in 1..Len(financial_facts)}

\* the total of the row of that key in a summary, 0 when it has none
TotalIn(rows, key) ==
    IF \E k \in 1..Len(rows) : DepartmentKey(rows[k]) = key
    THEN rows[CHOOSE k \in 1..Len(rows) : DepartmentKey(rows[k]) = key].total
    ELSE 0

\* the sum, over the labels of S, of the filtered totals of that key
RECURSIVE SumOfFiltered(_, _)
SumOfFiltered(S, key) ==
    IF S = {} THEN 0
    ELSE LET s == CHOOSE s \in S : TRUE
         IN  TotalIn(summarise_by_department(financial_facts, s), key) + SumOfFiltered(S \ {s}, key)

(***************************************************************************)
(* C18: the groups of summarise_by_department() without filter are the     *)
(* union of the groups of summarise_by_department(scenario=s) over the     *)
(* scenario labels s present in the store, and each unfiltered total is    *)
(* the sum over those s of the filtered totals of the same group.          *)
(***************************************************************************)
C18_Additivity ==
    (result.op = "summarise_by_department" /\ args.scenario = None)
    => LET rows == result.out.rows
           filtered(s) == summarise_by_department(financial_facts, s)
       IN  /\ {DepartmentKey(rows[k]) : k \in 1..Len(rows)}
                = UNION {{DepartmentKey(filtered(s)[k]) : k \in 1..Len(filtered(s))} : s \in Present}
           /\ \A k \in 1..Len(rows) :
                 rows[k].total = SumOfFiltered(Present, DepartmentKey(rows[k]))

(***************************************************************************)
(* C19: variance_report(actual, budget) returns one row per distinct       *)
(* (period, department, account) of the facts whose scenario is actual or  *)
(* budget; its actual is the sum of the values of the group's facts with   *)
(* scenario = actual, its budget the sum of those with scenario = budget   *)
(* (0 when the group has none on that side), its variance is actual minus  *)
(* budget; the rows ascend by period, department, account; the facts of    *)
(* other scenarios add nothing.                                            *)
(***************************************************************************)
C19_VarianceRows ==
    result.op = "variance_report"
    => LET actuals == WithScenario(args.actual_scenario)
           budgets == WithScenario(args.budget_scenario)
           rows == result.out.rows
           of(side, key) == {i \in side : AccountKey(financial_facts[i]) = key}
       IN  /\ {AccountKey(rows[k]) : k \in 1..Len(rows)}
                = {AccountKey(financial_facts[i]) : i \in actuals \cup budgets}
           /\ \A k \in 1..Len(rows) :
                 /\ rows[k].actual = TotalOf(of(actuals, AccountKey(rows[k])))
                 /\ rows[k].budget = TotalOf(of(budgets, AccountKey(rows[k])))
                 /\ rows[k].variance = rows[k].actual - rows[k].budget
           /\ \A k \in 1..(Len(rows) - 1) :
                 Before(AccountKey(rows[k]), AccountKey(rows[k + 1]))

\* an actual fact, a budget fact of another account and a fact of a third
\* scenario: two one-sided rows, in the order of the accounts
C19_Witness ==
    /\ result.op = "variance_report"
    /\ args.actual_scenario = sc_actual
    /\ args.budget_scenario = sc_budget
    /\ Len(financial_facts) = 3
    /\ financial_facts[1].scenario = sc_actual /\ financial_facts[1].account = t_R
    /\ financial_facts[2].scenario = sc_budget /\ financial_facts[2].account = <<"Q">>
    /\ financial_facts[2].period = t_1
    /\ financial_facts[3].scenario = sc_blank
    /\ financial_facts[1].department = t_S
    /\ result.out.rows =
         <<[period |-> t_1, department |-> t_S, account |-> <<"Q">>,
            actual |-> 0, budget |-> 0 - 7, variance |-> 7],
           [period |-> t_1, department |-> t_S, account |-> t_R,
            actual |-> 12, budget |-> 0, variance |-> 12]>>

Queries == {"summarise_by_department", "variance_report", "build_scenario"}

Absent(filter) == filter = None \/ filter = <<>>

\* the rule applies to the row: each filter is absent or is the row's
\* attribute up to the case of the letters
RuleApplies(rule, row) ==
    /\ (Absent(rule.department) \/ Lower(rule.department) = Lower(row.department))
    /\ (Absent(rule.account) \/ Lower(rule.account) = Lower(row.account))

\* the product of (1 + percentage_change) over the rules that apply
RECURSIVE Factor(_, _)
Factor(rules, row) ==
    IF rules = <<>> THEN 1
    ELSE LET n == Len(rules)
         IN  Factor(SubSeq(rules, 1, n - 1), row)
                 * (IF RuleApplies(rules[n], row) THEN 1 + rules[n].percentage_change ELSE 1)

Adjusted == result.op = "apply_adjustments"

(***************************************************************************)
(* C21: apply_adjustments gives each fact the value of the input fact      *)
(* multiplied by (1 + percentage_change) of every rule that matches it,    *)
(* one after the other (the changes compound, they are not added, and no   *)
(* matching rule is left out); rules whose percentage_change is 0 leave    *)
(* the value as it was.                                                    *)
(***************************************************************************)
C21_ChangesCompound ==
    Adjusted
    => /\ Len(result.out.rows) = Len(args.rows)
       /\ \A i \in 1..Len(args.rows) :
             /\ result.out.rows[i].value = args.rows[i].value * Factor(args.adjustments, args.rows[i])
             /\ (\A j \in 1..Len(args.adjustments) : args.adjustments[j].percentage_change = 0)
                    => result.out.rows[i].value = args.rows[i].value

\* two rules of +100% and +200% both match the row of value 3: 3 * 2 * 3
C21_Witness ==
    /\ Adjusted
    /\ args.rows = <<k_1sR>>
    /\ args.adjustments = <<[department |-> <<"s">>, account |-> None, percentage_change |-> 1],
                            [department |-> None, account |-> None, percentage_change |-> 2]>>
    /\ result.out.rows[1].value = 18

\* the attributes of a fact other than its value
Unvalued(row) ==
    <<row.period, row.department, row.account, row.currency, row.metadata>>

NoRuleApplies(rules, row) == \A j \in 1..Len(rules) : ~RuleApplies(rules[j], row)

(***************************************************************************)
(* C22: apply_adjustments returns one fact per input fact, in the order of *)
(* the input, with the period, department, account, currency and metadata  *)
(* of the input fact; a fact that no rule matches keeps its value too.     *)
(***************************************************************************)
C22_OneFactPerFact ==
    Adjusted
    => /\ Len(result.out.rows) = Len(args.rows)
       /\ \A i \in 1..Len(args.rows) :
             /\ DOMAIN result.out.rows[i] = DOMAIN args.rows[i]
             /\ Unvalued(result.out.rows[i]) = Unvalued(args.rows[i])
             /\ NoRuleApplies(args.adjustments, args.rows[i])
                    => result.out.rows[i] = args.rows[i]

\* the rule for account q doubles the second fact and leaves the first one
C22_Witness ==
    /\ Adjusted
    /\ args.rows = <<k_1SR, k_1SQ>>
    /\ args.adjustments = <<[department |-> None, account |-> <<"q">>, percentage_change |-> 1]>>
    /\ result.out.rows = <<k_1SR, [k_1SQ EXCEPT !.value = -14]>>

\* a call with one rule whose change is not 0: the rule matched a fact
\* exactly when the value of the fact changed (no value of AdjustRows is 0)
OneRule == Adjusted /\ Len(args.adjustments) = 1 /\ args.adjustments[1].percentage_change # 0

Changed(i) == result.out.rows[i].value # args.rows[i].value

(***************************************************************************)
(* C23: a rule matches a fact exactly when its department filter is absent *)
(* or is the fact's department up to letter case, and its account filter   *)
(* is absent or is the fact's account up to letter case. A rule without    *)
(* filters matches every fact; a rule with both filters matches only the   *)
(* facts that satisfy both. A filter is absent when it is None or empty.   *)
(***************************************************************************)
C23_RuleMatches ==
    OneRule
    => LET rule == args.adjustments[1]
       IN  \A i \in 1..Len(args.rows) :
              LET row == args.rows[i]
              IN  /\ Changed(i) <=> RuleApplies(rule, row)
                  /\ (Absent(rule.department) /\ Absent(rule.account)) => Changed(i)
                  /\ (~Absent(rule.department) /\ ~Absent(rule.account) /\ Changed(i))
                         => /\ Lower(rule.department) = Lower(row.department)
                            /\ Lower(rule.account) = Lower(row.account)

\* the rule for department s and account q matches the fact of S and Q, not the fact of S and R
C23_Witness ==
    /\ OneRule
    /\ args.rows = <<k_1SR, k_1SQ>>
    /\ args.adjustments = <<[department |-> <<"s">>, account |-> <<"q">>, percentage_change |-> 1]>>
    /\ ~Changed(1)
    /\ Changed(2)

(***************************************************************************)
(* Vocabulary of the properties of the store and of the export.            *)
(***************************************************************************)
\* no stored fact carries the label
HoldsNoFacts(label) == \A i \in 1..Len(financial_facts) : financial_facts[i].scenario # label

Exported == result.op = "export_scenario"

NotFound(r) == r.op = "export_scenario" /\ r.out.exc = "HTTPException" /\ r.out.msg = "404"

(***************************************************************************)
(* C24: build_scenario on a source label without stored facts returns the  *)
(* empty sequence, whatever the rules; the export of such a label answers  *)
(* 404, inserts nothing and leaves financial_facts as it was.              *)
(***************************************************************************)
C24_EmptySourceStep ==
    /\ \A label \in Scenarios :
          HoldsNoFacts(label)
          => \A rules \in {<<>>} \cup {<<rule>> : rule \in Rules} :
                build_scenario(financial_facts, label, rules) = <<>>
    /\ (Exported' /\ HoldsNoFacts(args'.source_scenario))
       => /\ NotFound(result')
          /\ result'.out.rows = <<>>
          /\ result'.rows_loaded = 0
          /\ financial_facts' = financial_facts

C24_EmptySourceIsNotFound == [][C24_EmptySourceStep]_vars

\* facts are stored, none of them under the label that was exported
C24_Witness ==
    /\ NotFound(result)
    /\ financial_facts # <<>>
    /\ HoldsNoFacts(args.source_scenario)

\* the eight attributes of a stored row
FactAttributes ==
    {"source", "scenario", "period", "department", "account", "value", "currency", "metadata"}

(***************************************************************************)
(* C25: whatever is called (loads, summaries, variance reports, exports),  *)
(* every stored row stays in financial_facts at its place with its eight   *)
(* attributes unchanged; rows are only appended, so the number of rows     *)
(* never decreases.                                                        *)
(***************************************************************************)
C25_AppendOnlyStep ==
    /\ Len(financial_facts') >= Len(financial_facts)
    /\ \A i \in 1..Len(financial_facts) :
          /\ DOMAIN financial_facts[i] = FactAttributes
          /\ financial_facts'[i] = financial_facts[i]

C25_AppendOnly == [][C25_AppendOnlyStep]_vars

\* a report read after a load and a persisted export: three rows are stored
C25_Witness ==
    /\ result.op = "variance_report"
    /\ Len(financial_facts) = MaxFacts
    /\ financial_facts[1].source = src_imports
    /\ \E i \in 2..Len(financial_facts) :
          financial_facts[i].source = s_scenario_colon \o financial_facts[1].scenario

\* a step that loads again, with the same source and scenario, the file
\* that the step before it loaded
Loaded(r) == r.op \in {"load_file", "load_workbook_file"} /\ r.out.exc = ""

Reloaded ==
    /\ Loaded(result)
    /\ Loaded(result')
    /\ result'.op = result.op
    /\ file' = file
    /\ args' = args

\* the rows of the file as they are stored for that source and scenario
StoredAs(rows, source, scenario) ==
    [i \in 1..Len(rows) |->
        [source |-> source, scenario |-> scenario, period |-> rows[i].period,
         department |-> rows[i].department, account |-> rows[i].account,
         value |-> rows[i].value, currency |-> rows[i].currency, metadata |-> rows[i].metadata]]

\* the table ends with the rows of the file, once more after the reload
StoredTwice ==
    LET n == Len(result.out.rows)
        m == Len(financial_facts)
        stored == StoredAs(result.out.rows, args.source, args.scenario)
    IN  /\ result'.out.rows = result.out.rows
        /\ result.rows_loaded = n
        /\ result'.rows_loaded = n
        /\ m >= n
        /\ SubSeq(financial_facts, m - n + 1, m) = stored
        /\ financial_facts' = financial_facts \o stored

\* every total of the reports of the loaded scenario is twice what it was
TotalsDoubled ==
    LET s == args.scenario
        before == summarise_by_department(financial_facts, s)
        after == summarise_by_department(financial_facts', s)
    IN  /\ Len(after) = Len(before)
        /\ \A k \in 1..Len(after) :
              /\ DepartmentKey(after[k]) = DepartmentKey(before[k])
              /\ after[k].total = 2 * before[k].total
        /\ \A other \in Scenarios :
              LET asActualBefore == variance_report(financial_facts, s, other)
                  asActualAfter == variance_report(financial_facts', s, other)
                  asBudgetBefore == variance_report(financial_facts, other, s)
                  asBudgetAfter == variance_report(financial_facts', other, s)
              IN  /\ Len(asActualAfter) = Len(asActualBefore)
                  /\ Len(asBudgetAfter) = Len(asBudgetBefore)
                  /\ \A k \in 1..Len(asActualAfter) :
                        /\ AccountKey(asActualAfter[k]) = AccountKey(asActualBefore[k])
                        /\ asActualAfter[k].actual = 2 * asActualBefore[k].actual
                  /\ \A k \in 1..Len(asBudgetAfter) :
                        /\ AccountKey(asBudgetAfter[k]) = AccountKey(asBudgetBefore[k])
                        /\ asBudgetAfter[k].budget = 2 * asBudgetBefore[k].budget

\* before the first of the two loads the scenario held no facts
FreshBeforeFirstLoad ==
    \A i \in 1..(Len(financial_facts) - Len(result.out.rows)) :
        financial_facts[i].scenario # args.scenario

(***************************************************************************)
(* C26: loading the same valid file twice with the same source and         *)
(* scenario stores its rows twice and reports the file's fact count as     *)
(* rows_loaded both times; every summary and variance total of the         *)
(* scenario is then twice what it was after the first load (the scenario   *)
(* holding no facts before the first load).                                *)
(***************************************************************************)
C26_ReloadDoublesFreshTotals ==
    [][Reloaded => (StoredTwice /\ (FreshBeforeFirstLoad => TotalsDoubled))]_vars

\* the sum of the values of the returned rows of that (period, department)
RECURSIVE SumOfGroup(_, _)
SumOfGroup(rows, key) ==
    IF rows = <<>> THEN 0
    ELSE (IF DepartmentKey(rows[1]) = key THEN rows[1].value ELSE 0) + SumOfGroup(Tail(rows), key)

\* the summary of the target is the group-wise sum of the returned rows
SummaryIsSumOf(summary, rows) ==
    /\ {DepartmentKey(summary[k]) : k \in 1..Len(summary)}
           = {DepartmentKey(rows[i]) : i \in 1..Len(rows)}
    /\ \A k \in 1..Len(summary) :
          summary[k].total = SumOfGroup(rows, DepartmentKey(summary[k]))

(***************************************************************************)
(* C27: an export that succeeds returns the adjusted facts of the source;  *)
(* with persist it appends one row per returned fact, with source          *)
(* "scenario:<source_scenario>" and the target as scenario, so that, when  *)
(* the target held no facts before, summarise_by_department of the target  *)
(* is the group-wise sum of the returned values; without persist the same  *)
(* rows are returned and nothing is inserted.                              *)
(***************************************************************************)
C27_ExportStep ==
    (Exported' /\ result'.out.exc = "")
    => LET request == args'
           rows == result'.out.rows
           rule == [department |-> request.department, account |-> request.account,
                    percentage_change |-> request.percentage_change]
       IN  /\ rows = apply_adjustments(fetch_dataset(financial_facts, request.source_scenario),
                                       <<rule>>)
           /\ IF request.persist
              THEN /\ financial_facts'
                         = financial_facts
                             \o StoredAs(rows, s_scenario_colon \o request.source_scenario,
                                         request.target_scenario)
                   /\ result'.rows_loaded = Len(rows)
                   /\ HoldsNoFacts(request.target_scenario)
                          => SummaryIsSumOf(summarise_by_department(financial_facts',
                                                                    request.target_scenario),
                                            rows)
              ELSE financial_facts' = financial_facts

C27_PersistedExportIsTargetSummary == [][C27_ExportStep]_vars

(***************************************************************************)
(* Vocabulary of the properties of the insights history.                   *)
(***************************************************************************)
\* the stored insights that the filters of the call select
Matching ==
    {ai_insights[i] : i \in {j \in 1..Len(ai_insights) :
        /\ Absent(args.actual) \/ ai_insights[j].actual = args.actual
        /\ Absent(args.budget) \/ ai_insights[j].budget = args.budget
        /\ Absent(args.prompt)
              \/ Like(IF ai_insights[j].prompt = None THEN <<>> ELSE ai_insights[j].prompt,
                      args.prompt)}}

\* a was stored after b
Newer(a, b) == a.created_at > b.created_at \/ (a.created_at = b.created_at /\ a.id > b.id)

\* the items of the pages 1..n of the call's filters and page size, in a row
RECURSIVE PagesUpTo(_)
PagesUpTo(n) ==
    IF n = 0 THEN <<>>
    ELSE PagesUpTo(n - 1)
             \o get_insights_history(ai_insights, args.actual, args.budget, args.prompt,
                                     n, args.page_size).items

(***************************************************************************)
(* C28: get_insights_history answers with page at least 1 and pageSize in  *)
(* 1..100 (the arguments clamped), with total the number of stored         *)
(* insights matching the filters whatever the page, with at most pageSize  *)
(* items, all matching, newest first; and the pages 1..ceil(total /        *)
(* pageSize) of the same table hold every matching insight exactly once.   *)
(***************************************************************************)
C28_HistoryPages ==
    result.op = "get_insights_history"
    => LET h == result.out
           last == (h.total + h.pageSize - 1) \div h.pageSize
           all == PagesUpTo(last)
       IN  /\ h.page = (IF args.page < 1 THEN 1 ELSE args.page)
           /\ h.pageSize = (IF args.page_size < 1 THEN 1
                            ELSE IF args.page_size > 100 THEN 100 ELSE args.page_size)
           /\ h.total = Cardinality(Matching)
           /\ Len(h.items) <= h.pageSize
           /\ \A k \in 1..Len(h.items) : h.items[k] \in Matching
           /\ \A k \in 1..(Len(h.items) - 1) : Newer(h.items[k], h.items[k + 1])
           /\ Len(all) = h.total
           /\ {all[k] : k \in 1..Len(all)} = Matching

\* two insights match, one per page: the second page holds the older one
C28_Witness ==
    /\ result.op = "get_insights_history"
    /\ args.page = 2
    /\ args.page_size = 1
    /\ result.out.total = 2
    /\ Len(result.out.items) = 1
    /\ result.out.items[1].id = 1

\* the number of rows of schema_migrations with that name
Applied(name) == Cardinality({k \in 1..Len(schema_migrations) : schema_migrations[k] = name})

(***************************************************************************)
(* C29: run_migrations applies each migration at most once: whatever calls *)
(* were made, also two calls interleaved on two connections, no call has   *)
(* failed, no migration name is twice in schema_migrations, and after a    *)
(* call that returned every migration name is in it exactly once.          *)
(***************************************************************************)
C29_MigrationsApplyOnce ==
    /\ \A c \in Connections : connections[c].exc = ""
    /\ \A k \in 1..Len(MIGRATIONS) : Applied(MIGRATIONS[k]) <= 1
    /\ (result.op \in {"run_migrations", "init_db"} /\ result.out.exc = "")
           => \A k \in 1..Len(MIGRATIONS) : Applied(MIGRATIONS[k]) = 1

(***************************************************************************)
(* Vocabulary of the properties of the stored API key.                     *)
(***************************************************************************)
Settings(r) == r.op = "settings_api_key"

Status(r, code) == r.out.exc = "HTTPException" /\ r.out.msg = code

\* the request carries the configured bridge token as its bearer token
Authorised(a) ==
    /\ Truthy(environ.DATARAILS_OPEN_BRIDGE_TOKEN)
    /\ a.credentials # NoCredentials
    /\ Lower(a.credentials.scheme) = s_bearer
    /\ a.credentials.credentials = environ.DATARAILS_OPEN_BRIDGE_TOKEN

(***************************************************************************)
(* C30: the stored encrypted API key changes only in a POST                *)
(* /settings/api-key whose bearer token is the configured                  *)
(* DATARAILS_OPEN_BRIDGE_TOKEN; without a configured token the request is  *)
(* answered 503, with a missing or different token 401, and the stored key *)
(* stays as it was; a generate_insights that follows a successful store of *)
(* a key k, with no API-key environment variable and no key in its         *)
(* request, uses k.                                                        *)
(***************************************************************************)
C30_KeyStep ==
    /\ bridge_api_key' # bridge_api_key
           => (Settings(result') /\ result'.out.exc = "" /\ Authorised(args'))
    /\ Settings(result')
           => /\ ~Truthy(environ.DATARAILS_OPEN_BRIDGE_TOKEN)
                    => (Status(result', "503") /\ bridge_api_key' = bridge_api_key)
              /\ (Truthy(environ.DATARAILS_OPEN_BRIDGE_TOKEN) /\ ~Authorised(args'))
                    => (Status(result', "401") /\ bridge_api_key' = bridge_api_key)
              /\ Authorised(args') => result'.out.exc = ""
    /\ ( /\ Settings(result)
         /\ result.out.exc = ""
         /\ Truthy(args.api_key)
         /\ result'.op = "generate_insights"
         /\ ~Truthy(args'.api_key)
         /\ ~Truthy(environ.DATARAILS_OPEN_API_KEY) )
           => (result'.api_key = args.api_key /\ ~Status(result', "400") /\ ~Status(result', "500"))

====
